---- MODULE Spec2Model ----
(***************************************************************************)
(* Model of the speech-bubble detection pipeline of Xsanctuary:            *)
(* parseOutput (tensor decoding, letterbox inversion, mask reconstruction, *)
(* polygon extraction) followed by nms (greedy IoU suppression), as run by *)
(* detectBubbles.  Source: src/src/utils/yolo-inference.ts; the offscreen  *)
(* copies src/unnamed/part_005 and part_006 hold the same functions.       *)
(*                                                                         *)
(* JavaScript numbers are modelled as exact rationals [n, d] with d > 0 in *)
(* lowest terms; d = 0 encodes the non-finite values a division produces:  *)
(* 0/0 is NaN, 1/0 is +Infinity, -1/0 is -Infinity.                        *)
(***************************************************************************)
EXTENDS Integers, Sequences, FiniteSets, TLC

VARIABLES
    output,               \* output0: the raw detection tensor {dims, data}
    maskProtos,           \* output1: the prototype-mask tensor, or undefined
    originalWidth,        \* img.width
    originalHeight,       \* img.height
    confidenceThreshold,  \* detectBubbles parameter
    nmsThreshold,         \* detectBubbles parameter
    scale,                \* parseOutput: the letterbox scale
    offsetX,              \* parseOutput: the letterbox padding left of the image
    offsetY,              \* parseOutput: the letterbox padding above the image
    pc,                   \* position inside detectBubbles / parseOutput / nms
    i,                    \* loop index of parseOutput, then of nms
    detections,           \* parseOutput's detections array
    rawDetections,        \* detectBubbles: what parseOutput returned
    sorted,               \* nms: the sorted copy of boxes
    keep,                 \* nms: the kept detections
    used,                 \* nms: the set of suppressed indices
    bubbles,              \* detectBubbles: what nms returned
    thrown,               \* TRUE when an exception escaped detectBubbles
    failed,               \* history: the box indices whose try block threw
    preprocess,           \* preprocessImage: scale, scaledWidth/Height, offsetX/Y
    pixel,                \* a point of the source image, in source pixels
    drawn,                \* where drawImage puts that point on the 640 x 640 canvas
    restored,             \* that canvas point mapped back by parseOutput
    unclamped,            \* parseOutput: x1, y1, x2, y2 of box 0 before clamping
    tryLocals,            \* parseOutput's try block run step by step: its locals
    reconstructed,        \* history: the prototype-grid cells whose dot product was evaluated
    polygonPoints,        \* fitTextToBubble: what it parsed out of maskPath, or null
    previous,             \* history: what the previous run of the pipeline returned
    message,              \* the YOLO_DETECT message the offscreen document received
    copy,                 \* which copy of the pipeline runs: yolo-inference.ts, part_005, part_006
    session,              \* yolo-inference.ts: let session (null, or the session created)
    loadingPromise,       \* yolo-inference.ts: let loadingPromise (null, or the promise of a load)
    sessionError,         \* yolo-inference.ts: let sessionError (null, or the error of a load)
    loads,                \* the load attempts started so far: the async bodies of loadModel
    calls,                \* the loadModel calls made so far and what each was handed
    modelCached,          \* IndexedDB: TRUE when the model is stored under MODEL_KEY
    retryArmed,           \* history: resetSessionError cleared an error and no call followed yet
    detectionCache,       \* comic-detector.ts: the Map, as its entries in insertion order
    requests              \* the detectBubblesInImage calls: their URL and where they stand

vars == <<output, maskProtos, originalWidth, originalHeight, confidenceThreshold,
          nmsThreshold, scale, offsetX, offsetY, pc, i, detections, rawDetections, sorted, keep, used,
          bubbles, thrown, failed, preprocess, pixel, drawn, restored, unclamped,
          tryLocals, reconstructed, polygonPoints, previous, message, copy,
          session, loadingPromise, sessionError, loads, calls, modelCached, retryArmed,
          detectionCache, requests>>

\* null of "let session: ort.InferenceSession | null = null" and of the two
\* variables declared with it; sessions, promises and errors are numbered from 1
null == 0

\* the module-level state outside the decoding pipeline
moduleState == <<session, loadingPromise, sessionError, loads, calls, modelCached,
                 retryArmed, detectionCache, requests>>

\* the modules as they are when loaded: nothing loaded, nothing cached, no call made
ModulesLoaded ==
    /\ session = null /\ loadingPromise = null /\ sessionError = null
    /\ loads = <<>>
    /\ calls = <<>>
    /\ modelCached = FALSE
    /\ retryArmed = FALSE
    /\ detectionCache = <<>>
    /\ requests = <<>>

---------------------------------------------------------------------------
(* Numbers *)

Abs(x) == IF x < 0 THEN -x ELSE x

RECURSIVE Gcd(_, _)
Gcd(a, b) == IF b = 0 THEN a ELSE Gcd(b, a % b)

\* the rational n/d (d # 0) in lowest terms with a positive denominator
Num(n, d) ==
    LET g == Gcd(Abs(n), Abs(d))
        s == IF d < 0 THEN -1 ELSE 1
    IN  [n |-> (s * n) \div g, d |-> (s * d) \div g]

IntNum(k) == [n |-> k, d |-> 1]
Zero == IntNum(0)
NaN == [n |-> 0, d |-> 0]
PosInfinity == [n |-> 1, d |-> 0]
NegInfinity == [n |-> -1, d |-> 0]

IsNaN(a) == a.d = 0 /\ a.n = 0
IsFinite(a) == a.d # 0

\* a + b, a - b, a * b.  The only non-finite operand the pipeline feeds to
\* them is NaN (an undefined array element coerced to a number), and NaN
\* propagates; infinities come out of Divide alone and are returned as is
Add(a, b) ==
    IF a.d = 1 /\ b.d = 1 THEN [n |-> a.n + b.n, d |-> 1]
    ELSE IF a.d = 0 \/ b.d = 0 THEN NaN
    ELSE Num(a.n * b.d + b.n * a.d, a.d * b.d)
Sub(a, b) ==
    IF a.d = 1 /\ b.d = 1 THEN [n |-> a.n - b.n, d |-> 1]
    ELSE IF a.d = 0 \/ b.d = 0 THEN NaN
    ELSE Num(a.n * b.d - b.n * a.d, a.d * b.d)
Mul(a, b) ==
    IF a.d = 1 /\ b.d = 1 THEN [n |-> a.n * b.n, d |-> 1]
    ELSE IF a.d = 0 \/ b.d = 0 THEN NaN
    ELSE Num(a.n * b.n, a.d * b.d)

\* a / b with IEEE results for a zero divisor
Divide(a, b) ==
    IF b.n = 0
    THEN IF a.n = 0 THEN NaN ELSE IF a.n > 0 THEN PosInfinity ELSE NegInfinity
    ELSE Num(a.n * b.d, a.d * b.n)

\* a < b: false whenever an operand is NaN
Lt(a, b) ==
    IF IsNaN(a) \/ IsNaN(b) THEN FALSE
    ELSE IF a.d = 0 /\ b.d = 0 THEN a.n < b.n
    ELSE IF a.d = 0 THEN a.n < 0
    ELSE IF b.d = 0 THEN b.n > 0
    ELSE a.n * b.d < b.n * a.d

Gt(a, b) == Lt(b, a)
Le(a, b) == ~IsNaN(a) /\ ~IsNaN(b) /\ ~Lt(b, a)

MathMin(a, b) == IF IsNaN(a) \/ IsNaN(b) THEN NaN ELSE IF Lt(b, a) THEN b ELSE a
MathMax(a, b) == IF IsNaN(a) \/ IsNaN(b) THEN NaN ELSE IF Lt(a, b) THEN b ELSE a

\* Math.floor and Math.ceil of a finite number, as integers
MathFloor(a) == a.n \div a.d
MathCeil(a) == -((-a.n) \div a.d)

---------------------------------------------------------------------------
(* Program constants and the inputs the model draws from *)

INPUT_SIZE == 640
numMaskCoeffs == 32

\* bound: the largest numBoxes (output.dims[2]) of a raw detection tensor
MaxBoxes == 2

\* coefficient vectors a candidate can carry: maskCoeff_c for c in 0..31
CoeffAt(name, c) ==
    CASE name = "e0"  -> IF c = 0 THEN 1 ELSE 0
      [] name = "e1"  -> IF c = 1 THEN 1 ELSE 0
      [] name = "neg" -> IF c = 1 THEN -1 ELSE IF c = 31 THEN -1 ELSE 0
      [] OTHER        -> 0

\* raw candidates in model-input space: centre, width, height, coefficients
RawBoxes ==
    { [cx |-> 320, cy |-> 320, w |-> 640,  h |-> 640, coeffs |-> "e1"],
      [cx |-> 464, cy |-> 320, w |-> 352,  h |-> 640, coeffs |-> "e0"],
      [cx |-> 80,  cy |-> 320, w |-> 96,   h |-> 200, coeffs |-> "neg"],
      [cx |-> 600, cy |-> -40, w |-> -400, h |-> 208, coeffs |-> "e0"] }

RawConfidences == { Num(90, 100), Num(120, 100) }

Candidates == { [box |-> b, confidence |-> c] : b \in RawBoxes, c \in RawConfidences }

RECURSIVE SeqsOf(_, _)
SeqsOf(S, len) ==
    IF len = 0 THEN { <<>> }
    ELSE { Append(s, e) : s \in SeqsOf(S, len - 1), e \in S }

\* raw detection tensors [1, 4 + 1 + 32, numBoxes]
OutputTensors ==
    UNION { { [dims |-> <<1, 4 + 1 + numMaskCoeffs, nb>>, cand |-> cs] :
                cs \in SeqsOf(Candidates, nb) } : nb \in 0..MaxBoxes }


Images == { [width |-> 1000, height |-> 2000] }

ConfidenceThresholds == { Num(90, 100), Num(95, 100) }
NmsThresholds == { Num(1, 2), Num(3, 5) }

\* an absent output1 (results[model.outputNames[1]] is undefined)
UndefinedTensor == [defined |-> FALSE, dims |-> <<>>, data |-> "none"]

\* prototype-mask tensors [1, 32, maskH, maskW]; data is named, ProtoAt reads it
ProtoTensors ==
    { [defined |-> TRUE, dims |-> <<1, numMaskCoeffs, 4, 4>>, data |-> "blob"] }

\* protoData[idx] for idx = c * maskH * maskW + y * maskW + x
ProtoAt(t, idx) ==
    LET hw == t.dims[3] * t.dims[4]
        c  == idx \div hw
        y  == (idx % hw) \div t.dims[4]
        x  == idx % t.dims[4]
    IN  CASE t.data = "blob" /\ c = 0  -> IF x <= 2 /\ y <= 2 THEN 1 ELSE -1
          [] t.data = "blob" /\ c = 1  -> 1
          [] t.data = "blob" /\ c = 31 -> 1
          [] OTHER                     -> 0

\* output.data[idx]: channel-major, feature f of box b sits at f * numBoxes + b.
\* The buffer holds dims[1] * dims[2] values; an index past its end reads
\* undefined, which every arithmetic use turns into NaN
DataAt(t, idx) ==
    LET nb == t.dims[3]
        f  == idx \div nb
        c  == t.cand[(idx % nb) + 1]
    IN  CASE f >= t.dims[2] -> NaN
          [] f = 0 -> IntNum(c.box.cx)
          [] f = 1 -> IntNum(c.box.cy)
          [] f = 2 -> IntNum(c.box.w)
          [] f = 3 -> IntNum(c.box.h)
          [] f = 4 -> c.confidence
          [] OTHER -> IntNum(CoeffAt(c.box.coeffs, f - 5))

---------------------------------------------------------------------------
(* Helpers of the pipeline *)

\* 1 / (1 + exp(-x)) to two decimals, saturating beyond |x| = 2; monotone,
\* and sigmoid(0) is exactly 0.5
sigmoid(x) ==
    IF x.d = 0 /\ x.n = 0 THEN NaN
    ELSE IF Le(x, IntNum(-2)) THEN Num(12, 100)
    ELSE IF Lt(x, Zero) THEN Num(27, 100)
    ELSE IF x = Zero THEN Num(50, 100)
    ELSE IF Lt(x, IntNum(2)) THEN Num(73, 100)
    ELSE Num(88, 100)

\* Number.prototype.toFixed(1) of a non-negative finite number: the nearest
\* multiple of 0.1, the larger one on a tie
ToFixed1(v) == Num(MathFloor(Add(Mul(v, IntNum(10)), Num(1, 2))), 10)

\* Math.atan2(p.y, p.x) < Math.atan2(q.y, q.x), decided exactly: the angles
\* lie in (-pi, pi], ordered by half-plane and then by the cross product
AngleSector(p) ==
    IF Lt(p.y, Zero) THEN 0
    ELSE IF Lt(Zero, p.y) THEN 2
    ELSE IF Lt(p.x, Zero) THEN 3 ELSE 1

AngleLess(p, q) ==
    \/ AngleSector(p) < AngleSector(q)
    \/ /\ AngleSector(p) = AngleSector(q)
       /\ AngleSector(p) \in {0, 2}
       /\ Lt(Zero, Sub(Mul(p.x, q.y), Mul(p.y, q.x)))

\* Array.prototype.sort with a comparator: stable; before[<<a, b>>] stands
\* for "the comparator returns a negative number for (a, b)"
RECURSIVE InsertSorted(_, _, _)
InsertSorted(s, e, before) ==
    IF s = <<>> THEN <<e>>
    ELSE IF before[<<e, s[Len(s)]>>]
         THEN Append(InsertSorted(SubSeq(s, 1, Len(s) - 1), e, before), s[Len(s)])
         ELSE Append(s, e)

RECURSIVE ArraySort(_, _)
ArraySort(s, before) ==
    IF s = <<>> THEN <<>>
    ELSE InsertSorted(ArraySort(SubSeq(s, 1, Len(s) - 1), before), s[Len(s)], before)

Elements(s) == { s[k] : k \in 1..Len(s) }

RECURSIVE SumSeq(_)
SumSeq(s) == IF s = <<>> THEN Zero ELSE Add(SumSeq(Tail(s)), Head(s))

---------------------------------------------------------------------------
(* maskToSvgPath *)

\* a string value returned by maskToSvgPath: the list of its formatted
\* points "x% y%"; the empty list is the empty string ''
EmptyString == <<>>

\* maskPath of a detection: a string, or undefined
StringPath(str) == [defined |-> TRUE, string |-> str]

\* faulty variant of UndefinedPath: maskPath initialised to '' instead of left undefined
InitialisedEmptyPath == StringPath(EmptyString)

\* "let maskPath: string | undefined;"
UndefinedPath == [defined |-> FALSE, string |-> EmptyString]

\* faulty variant of Inside: a value equal to the threshold counts as inside
InsideOrAtThreshold(val, threshold) == ~Lt(val, threshold)

\* "if (val > threshold)"
Inside(val, threshold) == Gt(val, threshold)

\* faulty variant of BoundaryPoints: every cell is visited, not every second
BoundaryPointsEveryCell(m, maskWidth, maskHeight, threshold) ==
    LET val(x, y) == m[y * maskWidth + x]
        left(x, y) == IF x > 0 THEN m[y * maskWidth + x - 1] ELSE Zero
        right(x, y) == IF x < maskWidth - 1 THEN m[y * maskWidth + x + 1] ELSE Zero
        top(x, y) == IF y > 0 THEN m[y * maskWidth + x - maskWidth] ELSE Zero
        bottom(x, y) == IF y < maskHeight - 1 THEN m[y * maskWidth + x + maskWidth] ELSE Zero
        IsBoundary(cell) ==
            /\ Gt(val(cell.x, cell.y), threshold)
            /\ \/ Le(left(cell.x, cell.y), threshold)
               \/ Le(right(cell.x, cell.y), threshold)
               \/ Le(top(cell.x, cell.y), threshold)
               \/ Le(bottom(cell.x, cell.y), threshold)
        cells == [k \in 1..(maskWidth * maskHeight) |->
                    [x |-> (k - 1) % maskWidth, y |-> (k - 1) \div maskWidth]]
        hits == SelectSeq(cells, IsBoundary)
    IN  [k \in 1..Len(hits) |->
            [x |-> Mul(Divide(IntNum(hits[k].x), IntNum(maskWidth)), IntNum(100)),
             y |-> Mul(Divide(IntNum(hits[k].y), IntNum(maskHeight)), IntNum(100))]]

\* the points the two loops of maskToSvgPath push, in pushing order
BoundaryPoints(m, maskWidth, maskHeight, threshold) ==
    LET step == 2
        nx == (maskWidth + step - 1) \div step
        ny == (maskHeight + step - 1) \div step
        val(x, y) == m[y * maskWidth + x]
        left(x, y) == IF x > 0 THEN m[y * maskWidth + x - 1] ELSE Zero
        right(x, y) == IF x < maskWidth - 1 THEN m[y * maskWidth + x + 1] ELSE Zero
        top(x, y) == IF y > 0 THEN m[y * maskWidth + x - maskWidth] ELSE Zero
        bottom(x, y) == IF y < maskHeight - 1 THEN m[y * maskWidth + x + maskWidth] ELSE Zero
        IsBoundary(cell) ==
            /\ Inside(val(cell.x, cell.y), threshold)
            /\ \/ Le(left(cell.x, cell.y), threshold)
               \/ Le(right(cell.x, cell.y), threshold)
               \/ Le(top(cell.x, cell.y), threshold)
               \/ Le(bottom(cell.x, cell.y), threshold)
        \* the cells the loops visit, in visiting order
        cells == [k \in 1..(nx * ny) |->
                    [x |-> step * ((k - 1) % nx), y |-> step * ((k - 1) \div nx)]]
        hits == SelectSeq(cells, IsBoundary)
    IN  [k \in 1..Len(hits) |->
            [x |-> Mul(Divide(IntNum(hits[k].x), IntNum(maskWidth)), IntNum(100)),
             y |-> Mul(Divide(IntNum(hits[k].y), IntNum(maskHeight)), IntNum(100))]]

\* the points sorted by angle around their centroid and formatted with
\* toFixed(1): the content of `polygon(...)`
PolygonString(points) ==
    LET cx == Divide(SumSeq([k \in 1..Len(points) |-> points[k].x]), IntNum(Len(points)))
        cy == Divide(SumSeq([k \in 1..Len(points) |-> points[k].y]), IntNum(Len(points)))
        Rel(p) == [x |-> Sub(p.x, cx), y |-> Sub(p.y, cy)]
        before == [pq \in Elements(points) \X Elements(points) |->
                      AngleLess(Rel(pq[1]), Rel(pq[2]))]
        ordered == ArraySort(points, before)
    IN  [k \in 1..Len(ordered) |->
            [x |-> ToFixed1(ordered[k].x), y |-> ToFixed1(ordered[k].y)]]

\* faulty variant of TooFewPoints: the test is off by one
TooFewPointsOffByOne(points) == Len(points) < 2

\* "if (points.length < 3) return ''"
TooFewPoints(points) == Len(points) < 3

maskToSvgPath(m, maskWidth, maskHeight, threshold) ==
    LET points == BoundaryPoints(m, maskWidth, maskHeight, threshold)
    IN  IF TooFewPoints(points) THEN EmptyString ELSE PolygonString(points)

---------------------------------------------------------------------------
(* preprocessImage: the letterbox it draws *)

\* faulty variant of PreprocessLetterbox: the image is scaled to cover the
\* canvas, the larger ratio is taken
PreprocessCover(w, h) ==
    LET sc == MathMax(Divide(IntNum(INPUT_SIZE), IntNum(w)), Divide(IntNum(INPUT_SIZE), IntNum(h)))
        sw == Mul(IntNum(w), sc)
        sh == Mul(IntNum(h), sc)
    IN  [scale |-> sc, scaledWidth |-> sw, scaledHeight |-> sh,
         offsetX |-> Divide(Sub(IntNum(INPUT_SIZE), sw), IntNum(2)),
         offsetY |-> Divide(Sub(IntNum(INPUT_SIZE), sh), IntNum(2))]

\* scale, scaledWidth, scaledHeight, offsetX, offsetY of img.onload
PreprocessLetterbox(w, h) ==
    LET sc == MathMin(Divide(IntNum(INPUT_SIZE), IntNum(w)), Divide(IntNum(INPUT_SIZE), IntNum(h)))
        sw == Mul(IntNum(w), sc)
        sh == Mul(IntNum(h), sc)
    IN  [scale |-> sc, scaledWidth |-> sw, scaledHeight |-> sh,
         offsetX |-> Divide(Sub(IntNum(INPUT_SIZE), sw), IntNum(2)),
         offsetY |-> Divide(Sub(IntNum(INPUT_SIZE), sh), IntNum(2))]

\* ctx.drawImage(img, offsetX, offsetY, scaledWidth, scaledHeight): the source
\* point p lands at offset + p * (scaled / source size) on either axis
DrawImage(pre, w, h, p) ==
    [x |-> Add(pre.offsetX, Mul(p.x, Divide(pre.scaledWidth, IntNum(w)))),
     y |-> Add(pre.offsetY, Mul(p.y, Divide(pre.scaledHeight, IntNum(h))))]

Origin == [x |-> Zero, y |-> Zero]

\* an optional number of a message: a value, or the field is missing
Supplied(v) == [supplied |-> TRUE, value |-> v]
Missing == [supplied |-> FALSE, value |-> Zero]

\* detectBubbles called directly, not through a message
NoMessage == [type |-> "none", confidenceThreshold |-> Missing, nmsThreshold |-> Missing]

\* no earlier run of the pipeline
NoRun == [ran |-> FALSE, rawDetections |-> <<>>, bubbles |-> <<>>, failed |-> {}]

\* the try block's locals before it has assigned any of them
NoLocals == [maskCoeffs |-> <<>>, mask |-> <<>>, croppedMask |-> <<>>,
             points |-> <<>>, maskPath |-> UndefinedPath]

\* "const polygonPoints = maskPath ? parsePolygon(maskPath) : null"
Null == [isNull |-> TRUE, points |-> <<>>]
NoCorners == [x1 |-> Zero, y1 |-> Zero, x2 |-> Zero, y2 |-> Zero]

---------------------------------------------------------------------------
(* parseOutput *)

numBoxes == output.dims[3]

\* "i < numBoxes" of the for loop: the destructuring leaves numBoxes undefined
\* when dims has fewer than 3 entries, and i < undefined is false
InLoop == Len(output.dims) >= 3 /\ i < numBoxes

\* the letterbox parameters parseOutput computes on entry
LetterboxScale(w, h) ==
    MathMin(Divide(IntNum(INPUT_SIZE), IntNum(w)), Divide(IntNum(INPUT_SIZE), IntNum(h)))
\* (INPUT_SIZE - scaledWidth) / 2 with scaledWidth = originalWidth * scale
LetterboxOffset(side, s) ==
    LET scaledSide == Mul(IntNum(side), s)
    IN  Divide(Sub(IntNum(INPUT_SIZE), scaledSide), IntNum(2))

\* Number(v) of the offscreen copies, applied to a dimension: a number is
\* returned as it is
NumberOf(v) == v

\* yolo-inference.ts reads protoDims[2] and protoDims[3], the offscreen
\* copies Number(protoDims[2]) and Number(protoDims[3])
maskH ==
    IF ~maskProtos.defined THEN 160
    ELSE IF copy = "yolo-inference.ts" THEN maskProtos.dims[3] ELSE NumberOf(maskProtos.dims[3])
maskW ==
    IF ~maskProtos.defined THEN 160
    ELSE IF copy = "yolo-inference.ts" THEN maskProtos.dims[4] ELSE NumberOf(maskProtos.dims[4])

\* the raw values of box b
xCenter(b) == DataAt(output, 0 * numBoxes + b)
yCenter(b) == DataAt(output, 1 * numBoxes + b)
width(b) == DataAt(output, 2 * numBoxes + b)
height(b) == DataAt(output, 3 * numBoxes + b)
confidence(b) == DataAt(output, 4 * numBoxes + b)

\* faulty variants of BelowThreshold: <= for <, and the test inverted
BelowOrAtThreshold(conf, threshold) == Le(conf, threshold)
AboveThreshold(conf, threshold) == Gt(conf, threshold)

\* the test of "if (confidence < confidenceThreshold) continue"
BelowThreshold(conf, threshold) == Lt(conf, threshold)

x1Letterbox(b) == Sub(xCenter(b), Divide(width(b), IntNum(2)))
y1Letterbox(b) == Sub(yCenter(b), Divide(height(b), IntNum(2)))
x2Letterbox(b) == Add(xCenter(b), Divide(width(b), IntNum(2)))
y2Letterbox(b) == Add(yCenter(b), Divide(height(b), IntNum(2)))

\* faulty variant of ToOriginalX: the letterbox padding is not removed
ToOriginalUnshifted(p) == Divide(p, scale)

\* remove the letterbox offset and scale back to the original image
ToOriginalX(p) == Divide(Sub(p, offsetX), scale)
ToOriginalY(p) == Divide(Sub(p, offsetY), scale)

\* faulty variant of Clamp: the lower bound is forgotten
ClampUpperOnly(limit, v) == MathMin(IntNum(limit), v)

\* Math.max(0, Math.min(limit, v))
Clamp(limit, v) == MathMax(Zero, MathMin(IntNum(limit), v))

clampedX1(b) == Clamp(originalWidth, ToOriginalX(x1Letterbox(b)))
clampedY1(b) == Clamp(originalHeight, ToOriginalY(y1Letterbox(b)))
clampedX2(b) == Clamp(originalWidth, ToOriginalX(x2Letterbox(b)))
clampedY2(b) == Clamp(originalHeight, ToOriginalY(y2Letterbox(b)))

\* faulty variant of maskCoeffs: the coefficients are read from the
\* confidence slot on, one channel too early
maskCoeffsFromConfidenceSlot(b) ==
    [c \in 0..(numMaskCoeffs - 1) |-> DataAt(output, (4 + c) * numBoxes + b)]

maskCoeffs(b) == [c \in 0..(numMaskCoeffs - 1) |-> DataAt(output, (5 + c) * numBoxes + b)]

\* the sum over c in lo..hi of maskCoeffs[c] * protoData[c * maskH * maskW + idx]
\* (the loop adds the terms one by one; the exact sum does not depend on
\* the order, so it is split in halves to keep the recursion shallow)
RECURSIVE MaskSum(_, _, _, _)
MaskSum(coeffs, idx, lo, hi) ==
    IF lo = hi
    THEN Mul(coeffs[lo], IntNum(ProtoAt(maskProtos, lo * maskH * maskW + idx)))
    ELSE LET mid == (lo + hi) \div 2
             a == MaskSum(coeffs, idx, lo, mid)
             b == MaskSum(coeffs, idx, mid + 1, hi)
         IN  Add(a, b)

\* the mask over the whole prototype grid
mask(b) ==
    LET coeffs == maskCoeffs(b)
    IN  [idx \in 0..(maskH * maskW - 1) |-> sigmoid(MaskSum(coeffs, idx, 0, numMaskCoeffs - 1))]

maskScale == Divide(IntNum(maskW), IntNum(INPUT_SIZE))
mx1(b) == MathFloor(Mul(x1Letterbox(b), maskScale))
my1(b) == MathFloor(Mul(y1Letterbox(b), maskScale))
mx2(b) == MathCeil(Mul(x2Letterbox(b), maskScale))
my2(b) == MathCeil(Mul(y2Letterbox(b), maskScale))

IntMax(a, b) == IF a < b THEN b ELSE a
IntMin(a, b) == IF b < a THEN b ELSE a

\* faulty variant of cropW: the lower bound of one cell is forgotten
cropWUnclamped(b) == mx2(b) - mx1(b)

cropW(b) == IntMax(1, mx2(b) - mx1(b))
cropH(b) == IntMax(1, my2(b) - my1(b))

srcX(b, x) == IntMin(maskW - 1, IntMax(0, mx1(b) + x))
srcY(b, y) == IntMin(maskH - 1, IntMax(0, my1(b) + y))

croppedMask(b) ==
    LET m == mask(b)
    IN  [idx \in 0..(cropW(b) * cropH(b) - 1) |->
            m[srcY(b, idx \div cropW(b)) * maskW + srcX(b, idx % cropW(b))]]

\* the maskPath the try block assigns when nothing throws
BuiltMaskPath(b) ==
    StringPath(maskToSvgPath(croppedMask(b), cropW(b), cropH(b), Num(1, 2)))

\* the object pushed onto detections for box b
Detection(b, path) ==
    [x |-> Divide(Divide(Add(clampedX1(b), clampedX2(b)), IntNum(2)), IntNum(originalWidth)),
     y |-> Divide(Divide(Add(clampedY1(b), clampedY2(b)), IntNum(2)), IntNum(originalHeight)),
     width |-> Divide(Sub(clampedX2(b), clampedX1(b)), IntNum(originalWidth)),
     height |-> Divide(Sub(clampedY2(b), clampedY1(b)), IntNum(originalHeight)),
     confidence |-> confidence(b),
     bbox |-> [x1 |-> clampedX1(b), y1 |-> clampedY1(b),
               x2 |-> clampedX2(b), y2 |-> clampedY2(b)],
     maskPath |-> path]

---------------------------------------------------------------------------
(* nms *)

calculateIoU(a, b) ==
    LET x1 == MathMax(a.bbox.x1, b.bbox.x1)
        y1 == MathMax(a.bbox.y1, b.bbox.y1)
        x2 == MathMin(a.bbox.x2, b.bbox.x2)
        y2 == MathMin(a.bbox.y2, b.bbox.y2)
        intersection == Mul(MathMax(Zero, Sub(x2, x1)), MathMax(Zero, Sub(y2, y1)))
        areaA == Mul(Sub(a.bbox.x2, a.bbox.x1), Sub(a.bbox.y2, a.bbox.y1))
        areaB == Mul(Sub(b.bbox.x2, b.bbox.x1), Sub(b.bbox.y2, b.bbox.y1))
        union == Sub(Add(areaA, areaB), intersection)
    IN  Divide(intersection, union)

\* faulty variant of OffscreenCalculateIoU: the intersection is not taken
\* out of the union
OffscreenIoUOverSum(a, b) ==
    LET x1 == MathMax(a.bbox.x1, b.bbox.x1)
        y1 == MathMax(a.bbox.y1, b.bbox.y1)
        x2 == MathMin(a.bbox.x2, b.bbox.x2)
        y2 == MathMin(a.bbox.y2, b.bbox.y2)
        intersection == Mul(MathMax(Zero, Sub(x2, x1)), MathMax(Zero, Sub(y2, y1)))
        areaA == Mul(Sub(a.bbox.x2, a.bbox.x1), Sub(a.bbox.y2, a.bbox.y1))
        areaB == Mul(Sub(b.bbox.x2, b.bbox.x1), Sub(b.bbox.y2, b.bbox.y1))
    IN  Divide(intersection, Add(areaA, areaB))

\* calculateIoU of the offscreen copies: no local for the union,
\* "return intersection / (areaA + areaB - intersection)"
OffscreenCalculateIoU(a, b) ==
    LET x1 == MathMax(a.bbox.x1, b.bbox.x1)
        y1 == MathMax(a.bbox.y1, b.bbox.y1)
        x2 == MathMin(a.bbox.x2, b.bbox.x2)
        y2 == MathMin(a.bbox.y2, b.bbox.y2)
        intersection == Mul(MathMax(Zero, Sub(x2, x1)), MathMax(Zero, Sub(y2, y1)))
        areaA == Mul(Sub(a.bbox.x2, a.bbox.x1), Sub(a.bbox.y2, a.bbox.y1))
        areaB == Mul(Sub(b.bbox.x2, b.bbox.x1), Sub(b.bbox.y2, b.bbox.y1))
    IN  Divide(intersection, Sub(Add(areaA, areaB), intersection))

\* "const iou = calculateIoU(sorted[i], sorted[j])" in the copy that runs
IoUInCopy(a, b) ==
    IF copy = "yolo-inference.ts" THEN calculateIoU(a, b) ELSE OffscreenCalculateIoU(a, b)

\* faulty variant of ConfidenceBefore: the sort is ascending
ConfidenceAscending(a, b) == Lt(a.confidence, b.confidence)

\* the comparator (a, b) => b.confidence - a.confidence returns a negative
\* number: a sorts before b
ConfidenceBefore(a, b) == Lt(b.confidence, a.confidence)

\* [...boxes].sort(...)
SortByConfidence(boxes) ==
    ArraySort(boxes, [ab \in Elements(boxes) \X Elements(boxes) |->
                         ConfidenceBefore(ab[1], ab[2])])

\* faulty variant of BoxesAfterSort: the array passed in is sorted in place
BoxesSortedInPlace(boxes) == SortByConfidence(boxes)

\* "[...boxes].sort(...)" sorts a copy: boxes itself is as it was
BoxesAfterSort(boxes) == boxes

\* faulty variant of Suppresses: an IoU equal to the threshold suppresses too
SuppressesAtThreshold(iou, iouThreshold) == ~Lt(iou, iouThreshold) /\ ~IsNaN(iou)

\* the test of "if (iou > iouThreshold) used.add(j)"
Suppresses(iou, iouThreshold) == Gt(iou, iouThreshold)

\* faulty variant of InnerLoopAdds: only the next candidate is compared
InnerLoopNextOnly(k) ==
    { j \in (k + 1)..(Len(sorted) - 1) :
        /\ j = k + 1
        /\ j \notin used
        /\ Gt(calculateIoU(sorted[k + 1], sorted[j + 1]), nmsThreshold) }

\* the indices the inner loop of iteration k adds to used
InnerLoopAdds(k) ==
    { j \in (k + 1)..(Len(sorted) - 1) :
        /\ j \notin used
        /\ Suppresses(IoUInCopy(sorted[k + 1], sorted[j + 1]), nmsThreshold) }

---------------------------------------------------------------------------
(* The state machine: detectBubbles from the moment model.run has returned  *)
(* and parseOutput has been entered                                        *)

\* detectBubbles calls parseOutput(output0, output1, originalWidth,
\* originalHeight, confidenceThreshold): the other arguments, and the locals
\* parseOutput and nms start with
Entry ==
    /\ maskProtos \in ProtoTensors \cup {UndefinedTensor}
    /\ \E img \in Images : originalWidth = img.width /\ originalHeight = img.height
    /\ confidenceThreshold \in ConfidenceThresholds
    /\ nmsThreshold \in NmsThresholds
    /\ scale = LetterboxScale(originalWidth, originalHeight)
    /\ offsetX = LetterboxOffset(originalWidth, scale)
    /\ offsetY = LetterboxOffset(originalHeight, scale)
    /\ pc = "parseOutput"
    /\ i = 0
    /\ detections = <<>>
    /\ rawDetections = <<>>
    /\ sorted = <<>>
    /\ keep = <<>>
    /\ used = {}
    /\ bubbles = <<>>
    /\ thrown = FALSE
    /\ failed = {}
    /\ preprocess = PreprocessLetterbox(originalWidth, originalHeight)
    /\ pixel = Origin
    /\ drawn = DrawImage(preprocess, originalWidth, originalHeight, pixel)
    /\ restored = Origin
    /\ unclamped = NoCorners
    /\ tryLocals = NoLocals
    /\ reconstructed = {}
    /\ polygonPoints = Null
    /\ previous = NoRun
    /\ copy = "yolo-inference.ts"
    /\ ModulesLoaded
    /\ message = NoMessage

Init ==
    /\ output \in OutputTensors
    /\ Entry

\* what no step of the pipeline assigns: the arguments, and the constants
\* parseOutput derives from them on entry
inputs == <<output, maskProtos, originalWidth, originalHeight,
            confidenceThreshold, nmsThreshold, scale, offsetX, offsetY,
            preprocess, pixel, drawn, restored, unclamped,
            tryLocals, reconstructed, polygonPoints, previous, message, copy, moduleState>>

\* faulty variant of MaskErrorCaught: mask generation runs outside any try
MaskErrorEscapes == FALSE

\* the catch clause of the try around mask generation catches every exception
MaskErrorCaught == TRUE

\* loop body of parseOutput, confidence below the threshold: continue
ParseSkip ==
    /\ pc = "parseOutput" /\ InLoop
    /\ BelowThreshold(confidence(i), confidenceThreshold)
    /\ i' = i + 1
    /\ UNCHANGED <<inputs, pc, detections, rawDetections, sorted, keep, used, bubbles, thrown, failed>>

\* loop body of parseOutput, no prototypes: maskPath stays undefined
ParseEmit ==
    /\ pc = "parseOutput" /\ InLoop
    /\ ~BelowThreshold(confidence(i), confidenceThreshold)
    /\ ~maskProtos.defined
    /\ detections' = Append(detections, Detection(i, UndefinedPath))
    /\ i' = i + 1
    /\ UNCHANGED <<inputs, pc, rawDetections, sorted, keep, used, bubbles, thrown, failed>>

\* loop body of parseOutput with prototypes, the try block completes
ParseEmitMask ==
    /\ pc = "parseOutput" /\ InLoop
    /\ ~BelowThreshold(confidence(i), confidenceThreshold)
    /\ maskProtos.defined
    /\ detections' = Append(detections, Detection(i, BuiltMaskPath(i)))
    /\ i' = i + 1
    /\ UNCHANGED <<inputs, pc, rawDetections, sorted, keep, used, bubbles, thrown, failed>>

\* loop body of parseOutput with prototypes, the try block throws (an
\* allocation of new Float32Array(...) fails): maskPath was not assigned
ParseMaskThrows ==
    /\ pc = "parseOutput" /\ InLoop
    /\ ~BelowThreshold(confidence(i), confidenceThreshold)
    /\ maskProtos.defined
    /\ failed' = failed \cup {i}
    /\ IF MaskErrorCaught
       THEN /\ detections' = Append(detections, Detection(i, UndefinedPath))
            /\ i' = i + 1
            /\ UNCHANGED <<pc, thrown>>
       ELSE /\ thrown' = TRUE
            /\ pc' = "done"
            /\ UNCHANGED <<detections, i>>
    /\ UNCHANGED <<inputs, rawDetections, sorted, keep, used, bubbles>>

\* parseOutput returns detections; detectBubbles calls nms(rawDetections, nmsThreshold)
ParseReturn ==
    /\ pc = "parseOutput" /\ ~InLoop
    /\ rawDetections' = detections
    /\ pc' = "nms"
    /\ UNCHANGED <<inputs, i, detections, sorted, keep, used, bubbles, thrown, failed>>

\* nms: if (boxes.length === 0) return []
NmsEmpty ==
    /\ pc = "nms" /\ Len(rawDetections) = 0
    /\ bubbles' = <<>>
    /\ pc' = "done"
    /\ UNCHANGED <<inputs, i, detections, rawDetections, sorted, keep, used, thrown, failed>>

\* nms: sort a copy by descending confidence, start the loop
NmsSort ==
    /\ pc = "nms" /\ Len(rawDetections) # 0
    /\ sorted' = SortByConfidence(rawDetections)
    /\ rawDetections' = BoxesAfterSort(rawDetections)
    /\ keep' = <<>>
    /\ used' = {}
    /\ i' = 0
    /\ pc' = "nmsLoop"
    /\ UNCHANGED <<inputs, detections, bubbles, thrown, failed>>

\* nms outer loop: if (used.has(i)) continue
NmsSkip ==
    /\ pc = "nmsLoop" /\ i < Len(sorted)
    /\ i \in used
    /\ i' = i + 1
    /\ UNCHANGED <<inputs, pc, detections, rawDetections, sorted, keep, used, bubbles, thrown, failed>>

\* nms outer loop: keep sorted[i], run the inner loop over j > i
NmsKeep ==
    /\ pc = "nmsLoop" /\ i < Len(sorted)
    /\ i \notin used
    /\ keep' = Append(keep, sorted[i + 1])
    /\ used' = used \cup InnerLoopAdds(i)
    /\ i' = i + 1
    /\ UNCHANGED <<inputs, pc, detections, rawDetections, sorted, bubbles, thrown, failed>>

\* nms returns keep; detectBubbles returns {bubbles, imageWidth, imageHeight, ...}
NmsReturn ==
    /\ pc = "nmsLoop" /\ ~(i < Len(sorted))
    /\ bubbles' = keep
    /\ pc' = "done"
    /\ UNCHANGED <<inputs, i, detections, rawDetections, sorted, keep, used, thrown, failed>>

Next ==
    \/ ParseSkip
    \/ ParseEmit
    \/ ParseEmitMask
    \/ ParseMaskThrows
    \/ ParseReturn
    \/ NmsEmpty
    \/ NmsSort
    \/ NmsSkip
    \/ NmsKeep
    \/ NmsReturn

Spec == Init /\ [][Next]_vars

---------------------------------------------------------------------------
(* The same pipeline handed a raw detection tensor of the wrong shape *)

\* candidates of the malformed tensors: the two overlapping boxes
ShapeCandidates ==
    { [box |-> b, confidence |-> c] :
        b \in { r \in RawBoxes : r.cx \in {320, 464} }, c \in RawConfidences }

\* a feature count of 5 instead of 4 + 1 + 32: the buffer ends after the
\* confidence channel, so it is shorter than the 37 * numBoxes values read
FiveFeatureTensors ==
    UNION { { [dims |-> <<1, 4 + 1, nb>>, cand |-> cs] :
                cs \in SeqsOf(ShapeCandidates, nb) } : nb \in 1..MaxBoxes }

\* rank 2 instead of 3: dims is [37, numBoxes], the batch dimension is missing
RankTwoTensors ==
    UNION { { [dims |-> <<4 + 1 + numMaskCoeffs, nb>>, cand |-> cs] :
                cs \in SeqsOf(ShapeCandidates, nb) } : nb \in 1..MaxBoxes }

MalformedTensors == FiveFeatureTensors \cup RankTwoTensors

\* the shape parseOutput's comments require: [1, 4 + num_classes + 32, num_boxes]
WellFormed(t) == Len(t.dims) = 3 /\ t.dims[1] = 1 /\ t.dims[2] = 4 + 1 + numMaskCoeffs

ShapeInit ==
    /\ output \in MalformedTensors
    /\ Entry

ShapeSpec == ShapeInit /\ [][Next]_vars

---------------------------------------------------------------------------
(* The pipeline run twice on the same tensors, image and thresholds *)

PureTensors ==
    UNION { { [dims |-> <<1, 4 + 1 + numMaskCoeffs, nb>>, cand |-> cs] :
                cs \in SeqsOf(ShapeCandidates, nb) } : nb \in 0..MaxBoxes }

PureInit ==
    /\ output \in PureTensors
    /\ Entry

\* faulty variant of FreshDetections: the array outlives the call
LeftoverDetections == detections

\* "const detections: BubbleDetection[] = []": a new array on every call
FreshDetections == <<>>

\* detectBubbles is called again and inference returns the same tensors:
\* every local of parseOutput and nms is declared inside the function and
\* starts afresh
Rerun ==
    /\ pc = "done" /\ ~previous.ran /\ ~thrown
    /\ previous' = [ran |-> TRUE, rawDetections |-> rawDetections,
                     bubbles |-> bubbles, failed |-> failed]
    /\ pc' = "parseOutput"
    /\ i' = 0
    /\ detections' = FreshDetections
    /\ rawDetections' = <<>>
    /\ sorted' = <<>> /\ keep' = <<>> /\ used' = {}
    /\ bubbles' = <<>>
    /\ failed' = {}
    /\ UNCHANGED <<output, maskProtos, originalWidth, originalHeight, confidenceThreshold,
                   nmsThreshold, scale, offsetX, offsetY, preprocess, pixel, drawn, restored,
                   unclamped, thrown, tryLocals, reconstructed, polygonPoints, message, copy, moduleState>>

PureNext ==
    \/ Next
    \/ Rerun

PureSpec == PureInit /\ [][PureNext]_vars

---------------------------------------------------------------------------
(* The three copies of the pipeline run one after the other on the same *)
(* tensors, image and thresholds                                        *)

NextCopy == IF copy = "yolo-inference.ts" THEN "part_005" ELSE "part_006"

CopyInit ==
    /\ output \in PureTensors
    /\ Entry
    /\ confidenceThreshold = Num(95, 100)

\* the next copy is handed the same arguments; what the first copy
\* returned is kept for comparison
RunNextCopy ==
    /\ pc = "done" /\ ~thrown /\ copy # "part_006"
    /\ copy' = NextCopy
    /\ previous' = IF previous.ran THEN previous
                    ELSE [ran |-> TRUE, rawDetections |-> rawDetections,
                          bubbles |-> bubbles, failed |-> failed]
    /\ pc' = "parseOutput"
    /\ i' = 0
    /\ detections' = <<>>
    /\ rawDetections' = <<>>
    /\ sorted' = <<>> /\ keep' = <<>> /\ used' = {}
    /\ bubbles' = <<>>
    /\ failed' = {}
    /\ UNCHANGED <<output, maskProtos, originalWidth, originalHeight, confidenceThreshold,
                   nmsThreshold, scale, offsetX, offsetY, preprocess, pixel, drawn, restored,
                   unclamped, thrown, tryLocals, reconstructed, polygonPoints, message,
                   moduleState>>

CopyNext ==
    \/ Next
    \/ RunNextCopy

CopySpec == CopyInit /\ [][CopyNext]_vars

---------------------------------------------------------------------------
(* nms alone, over lists of detections handed to it directly, and applied *)
(* a second time to its own result                                        *)

\* bound: the longest list of detections handed to nms
MaxDetections == 3

\* a detection as parseOutput pushes it, for a box given in pixels
NmsDetection(x1, y1, x2, y2, conf) ==
    [x |-> Divide(Divide(IntNum(x1 + x2), IntNum(2)), IntNum(1000)),
     y |-> Divide(Divide(IntNum(y1 + y2), IntNum(2)), IntNum(2000)),
     width |-> Divide(IntNum(x2 - x1), IntNum(1000)),
     height |-> Divide(IntNum(y2 - y1), IntNum(2000)),
     confidence |-> conf,
     bbox |-> [x1 |-> IntNum(x1), y1 |-> IntNum(y1), x2 |-> IntNum(x2), y2 |-> IntNum(y2)],
     maskPath |-> UndefinedPath]

\* nested boxes with IoU 0.6 (first and second), 2/3 (second and third) and
\* 0.4 (first and third), the first again with the confidence of the second,
\* a box of zero area and a box far from the others
NmsDetections ==
    { NmsDetection(0, 0, 10, 10, Num(9, 10)),
      NmsDetection(0, 0, 10, 6, Num(8, 10)),
      NmsDetection(0, 0, 10, 4, Num(7, 10)),
      NmsDetection(0, 0, 10, 10, Num(8, 10)),
      NmsDetection(5, 5, 5, 5, Num(9, 10)),
      NmsDetection(20, 20, 30, 30, Num(7, 10)) }

IouThresholds == { Num(2, 5), Num(1, 2), Num(3, 5) }

NmsInit ==
    /\ rawDetections \in UNION { SeqsOf(NmsDetections, n) : n \in 0..MaxDetections }
    /\ nmsThreshold \in IouThresholds
    /\ detections = rawDetections
    /\ output = [dims |-> <<1, 4 + 1 + numMaskCoeffs, 0>>, cand |-> <<>>]
    /\ maskProtos = UndefinedTensor
    /\ \E img \in Images : originalWidth = img.width /\ originalHeight = img.height
    /\ confidenceThreshold = Num(1, 2)
    /\ scale = LetterboxScale(originalWidth, originalHeight)
    /\ offsetX = LetterboxOffset(originalWidth, scale)
    /\ offsetY = LetterboxOffset(originalHeight, scale)
    /\ pc = "nms"
    /\ i = 0
    /\ sorted = <<>> /\ keep = <<>> /\ used = {}
    /\ bubbles = <<>>
    /\ thrown = FALSE
    /\ failed = {}
    /\ preprocess = PreprocessLetterbox(originalWidth, originalHeight)
    /\ pixel = Origin
    /\ drawn = DrawImage(preprocess, originalWidth, originalHeight, pixel)
    /\ restored = Origin
    /\ unclamped = NoCorners
    /\ tryLocals = NoLocals
    /\ reconstructed = {}
    /\ polygonPoints = Null
    /\ previous = NoRun
    /\ copy = "yolo-inference.ts"
    /\ ModulesLoaded
    /\ message = NoMessage

\* nms(nms(boxes, t), t): the list nms returned is handed to nms again; the
\* locals sorted, keep and used of the second call start afresh
NmsAgain ==
    /\ pc = "done" /\ ~previous.ran
    /\ previous' = [ran |-> TRUE, rawDetections |-> rawDetections,
                     bubbles |-> bubbles, failed |-> failed]
    /\ rawDetections' = bubbles
    /\ sorted' = <<>> /\ keep' = <<>> /\ used' = {}
    /\ bubbles' = <<>>
    /\ i' = 0
    /\ pc' = "nms"
    /\ UNCHANGED <<output, maskProtos, originalWidth, originalHeight, confidenceThreshold,
                   nmsThreshold, scale, offsetX, offsetY, preprocess, pixel, drawn, restored,
                   unclamped, detections, thrown, failed, tryLocals, reconstructed,
                   polygonPoints, message, copy, moduleState>>

NmsNext ==
    \/ NmsEmpty
    \/ NmsSort
    \/ NmsSkip
    \/ NmsKeep
    \/ NmsReturn
    \/ NmsAgain

NmsSpec == NmsInit /\ [][NmsNext]_vars

---------------------------------------------------------------------------
(* The offscreen document's message listener in front of the pipeline *)

MessageThresholds == { Missing, Supplied(Zero), Supplied(Num(1, 2)), Supplied(Num(3, 5)) }

Messages ==
    { [type |-> "YOLO_DETECT", confidenceThreshold |-> c, nmsThreshold |-> n] :
        c \in MessageThresholds, n \in MessageThresholds }

\* candidates on either side of the listener's default of 0.5
MessageCandidates ==
    { [box |-> b, confidence |-> c] :
        b \in { r \in RawBoxes : r.cx \in {320, 464} }, c \in { Num(1, 4), Num(9, 10) } }

MessageTensors ==
    UNION { { [dims |-> <<1, 4 + 1 + numMaskCoeffs, nb>>, cand |-> cs] :
                cs \in SeqsOf(MessageCandidates, nb) } : nb \in 0..MaxBoxes }

MessageInit ==
    /\ message \in Messages
    /\ output \in MessageTensors
    /\ maskProtos \in ProtoTensors \cup {UndefinedTensor}
    /\ \E img \in Images : originalWidth = img.width /\ originalHeight = img.height
    /\ confidenceThreshold = Zero
    /\ nmsThreshold = Zero
    /\ scale = LetterboxScale(originalWidth, originalHeight)
    /\ offsetX = LetterboxOffset(originalWidth, scale)
    /\ offsetY = LetterboxOffset(originalHeight, scale)
    /\ pc = "onMessage"
    /\ i = 0
    /\ detections = <<>> /\ rawDetections = <<>>
    /\ sorted = <<>> /\ keep = <<>> /\ used = {}
    /\ bubbles = <<>>
    /\ thrown = FALSE
    /\ failed = {}
    /\ preprocess = PreprocessLetterbox(originalWidth, originalHeight)
    /\ pixel = Origin
    /\ drawn = DrawImage(preprocess, originalWidth, originalHeight, pixel)
    /\ restored = Origin
    /\ unclamped = NoCorners
    /\ tryLocals = NoLocals
    /\ reconstructed = {}
    /\ polygonPoints = Null
    /\ previous = NoRun
    /\ copy = "part_006"
    /\ ModulesLoaded

\* "(message.confidenceThreshold as number) || 0.5": the left operand unless
\* it is falsy (undefined, 0 or NaN), otherwise the default
OrDefault(v, default) ==
    IF v.supplied /\ v.value # Zero /\ ~IsNaN(v.value) THEN v.value ELSE default

\* case 'YOLO_DETECT': detectBubbles(imageUrl, confidenceThreshold || 0.5,
\* nmsThreshold || 0.5), which reaches parseOutput once inference is done
OnMessage ==
    /\ pc = "onMessage"
    /\ message.type = "YOLO_DETECT"
    /\ confidenceThreshold' = OrDefault(message.confidenceThreshold, Num(1, 2))
    /\ nmsThreshold' = OrDefault(message.nmsThreshold, Num(1, 2))
    /\ pc' = "parseOutput"
    /\ UNCHANGED <<output, maskProtos, originalWidth, originalHeight, scale, offsetX, offsetY,
                   preprocess, pixel, drawn, restored, unclamped, i, detections,
                   rawDetections, sorted, keep, used, bubbles, thrown, failed, tryLocals,
                   reconstructed, polygonPoints, previous, message, copy, moduleState>>

MessageNext ==
    \/ OnMessage
    \/ Next

MessageSpec == MessageInit /\ [][MessageNext]_vars

---------------------------------------------------------------------------
(* The letterbox alone: preprocessImage draws a source pixel onto the canvas, *)
(* parseOutput computes its own letterbox parameters and maps canvas points   *)
(* back to the source image                                                  *)

TransformImages ==
    { [width |-> 1000, height |-> 2000], [width |-> 2000, height |-> 1000],
      [width |-> 640, height |-> 640], [width |-> 1920, height |-> 1080],
      [width |-> 333, height |-> 500] }

SourcePixels ==
    { [x |-> IntNum(0), y |-> IntNum(0)], [x |-> IntNum(1), y |-> IntNum(1)],
      [x |-> IntNum(333), y |-> IntNum(77)], [x |-> Num(1999, 2), y |-> IntNum(1999)] }

\* single-candidate tensors: a box inside the drawn image, one in the padding
DecodeBoxes ==
    { [cx |-> 320, cy |-> 100, w |-> 80, h |-> 40,  coeffs |-> "e0"],
      [cx |-> 80,  cy |-> 320, w |-> 96, h |-> 200, coeffs |-> "neg"] }

DecodeTensors ==
    { [dims |-> <<1, 4 + 1 + numMaskCoeffs, 1>>,
       cand |-> << [box |-> b, confidence |-> Num(90, 100)] >>] : b \in DecodeBoxes }

TransformInit ==
    /\ output \in DecodeTensors
    /\ maskProtos = UndefinedTensor
    /\ \E img \in TransformImages : originalWidth = img.width /\ originalHeight = img.height
    /\ confidenceThreshold = Num(90, 100)
    /\ nmsThreshold = Num(1, 2)
    /\ scale = Zero /\ offsetX = Zero /\ offsetY = Zero
    /\ pc = "preprocessImage"
    /\ i = 0
    /\ detections = <<>> /\ rawDetections = <<>>
    /\ sorted = <<>> /\ keep = <<>> /\ used = {}
    /\ bubbles = <<>>
    /\ thrown = FALSE
    /\ failed = {}
    /\ preprocess = [scale |-> Zero, scaledWidth |-> Zero, scaledHeight |-> Zero,
                     offsetX |-> Zero, offsetY |-> Zero]
    /\ pixel \in SourcePixels
    /\ drawn = Origin
    /\ restored = Origin
    /\ unclamped = NoCorners
    /\ tryLocals = NoLocals
    /\ reconstructed = {}
    /\ polygonPoints = Null
    /\ previous = NoRun
    /\ copy = "yolo-inference.ts"
    /\ ModulesLoaded
    /\ message = NoMessage

\* the variables of the decode loop and of nms, which the letterbox steps leave alone
pipelineLocals == <<i, detections, rawDetections, sorted, keep, used, bubbles, thrown, failed,
                    tryLocals, reconstructed, polygonPoints, previous, message, copy, moduleState>>

\* img.onload of preprocessImage: the letterbox parameters, then drawImage
PreprocessImage ==
    /\ pc = "preprocessImage"
    /\ preprocess' = PreprocessLetterbox(originalWidth, originalHeight)
    /\ drawn' = DrawImage(preprocess', originalWidth, originalHeight, pixel)
    /\ pc' = "letterbox"
    /\ UNCHANGED <<output, maskProtos, originalWidth, originalHeight, confidenceThreshold,
                   nmsThreshold, scale, offsetX, offsetY, pixel, restored, unclamped,
                   pipelineLocals>>

\* parseOutput: "Calculate letterbox parameters"
ParseLetterbox ==
    /\ pc = "letterbox"
    /\ scale' = LetterboxScale(originalWidth, originalHeight)
    /\ offsetX' = LetterboxOffset(originalWidth, scale')
    /\ offsetY' = LetterboxOffset(originalHeight, scale')
    /\ pc' = "toOriginal"
    /\ UNCHANGED <<output, maskProtos, originalWidth, originalHeight, confidenceThreshold,
                   nmsThreshold, preprocess, pixel, drawn, restored, unclamped,
                   pipelineLocals>>

\* parseOutput: "Remove letterbox offset and scale back to original", applied
\* to the corners of box 0 and to the canvas point of the drawn pixel
ParseToOriginal ==
    /\ pc = "toOriginal"
    /\ unclamped' = [x1 |-> ToOriginalX(x1Letterbox(0)), y1 |-> ToOriginalY(y1Letterbox(0)),
                     x2 |-> ToOriginalX(x2Letterbox(0)), y2 |-> ToOriginalY(y2Letterbox(0))]
    /\ restored' = [x |-> ToOriginalX(drawn.x), y |-> ToOriginalY(drawn.y)]
    /\ pc' = "decoded"
    /\ UNCHANGED <<output, maskProtos, originalWidth, originalHeight, confidenceThreshold,
                   nmsThreshold, scale, offsetX, offsetY, preprocess, pixel, drawn,
                   pipelineLocals>>

TransformNext ==
    \/ PreprocessImage
    \/ ParseLetterbox
    \/ ParseToOriginal

TransformSpec == TransformInit /\ [][TransformNext]_vars

---------------------------------------------------------------------------
(* Mask reconstruction alone: the try block of parseOutput run step by step  *)
(* for box 0 of a single-candidate tensor, then fitTextToBubble parsing the  *)
(* maskPath of the detection                                                 *)

\* every box geometry with every coefficient vector
MaskCandidates ==
    { [box |-> [b EXCEPT !.coeffs = n], confidence |-> Num(90, 100)] :
        b \in RawBoxes, n \in {"e0", "e1", "neg"} }

MaskTensors ==
    { [dims |-> <<1, 4 + 1 + numMaskCoeffs, 1>>, cand |-> <<c>>] : c \in MaskCandidates }

\* the prototypes of the pipeline, and an all-zero prototype tensor
MaskProtoTensors ==
    ProtoTensors \cup { [defined |-> TRUE, dims |-> <<1, numMaskCoeffs, 4, 4>>, data |-> "zeros"] }

MaskInit ==
    /\ output \in MaskTensors
    /\ maskProtos \in MaskProtoTensors
    /\ \E img \in Images : originalWidth = img.width /\ originalHeight = img.height
    /\ confidenceThreshold = Num(90, 100)
    /\ nmsThreshold = Num(1, 2)
    /\ scale = LetterboxScale(originalWidth, originalHeight)
    /\ offsetX = LetterboxOffset(originalWidth, scale)
    /\ offsetY = LetterboxOffset(originalHeight, scale)
    /\ pc = "try"
    /\ i = 0
    /\ detections = <<>> /\ rawDetections = <<>>
    /\ sorted = <<>> /\ keep = <<>> /\ used = {}
    /\ bubbles = <<>>
    /\ thrown = FALSE
    /\ failed = {}
    /\ preprocess = PreprocessLetterbox(originalWidth, originalHeight)
    /\ pixel = Origin
    /\ drawn = DrawImage(preprocess, originalWidth, originalHeight, pixel)
    /\ restored = Origin
    /\ unclamped = NoCorners
    /\ tryLocals = NoLocals
    /\ reconstructed = {}
    /\ polygonPoints = Null
    /\ previous = NoRun
    /\ copy = "yolo-inference.ts"
    /\ ModulesLoaded
    /\ message = NoMessage

\* what the steps of the try block leave alone
outsideTry == <<output, maskProtos, originalWidth, originalHeight, confidenceThreshold,
                nmsThreshold, scale, offsetX, offsetY, preprocess, pixel, drawn, restored,
                unclamped, i, rawDetections, sorted, keep, used, bubbles, thrown, failed,
                previous, message, copy, moduleState>>

\* "Extract mask coefficients (last 32 values for this detection)"
TryExtractCoeffs ==
    /\ pc = "try"
    /\ tryLocals' = [tryLocals EXCEPT !.maskCoeffs = maskCoeffs(i)]
    /\ pc' = "mask"
    /\ UNCHANGED <<outsideTry, detections, reconstructed, polygonPoints>>

\* "Generate mask by multiplying coefficients with prototypes": the loops
\* over y < maskH and x < maskW run the 32-term sum once per cell
TryBuildMask ==
    /\ pc = "mask"
    /\ tryLocals' = [tryLocals EXCEPT !.mask = mask(i)]
    /\ reconstructed' = { [x |-> x, y |-> y] : x \in 0..(maskW - 1), y \in 0..(maskH - 1) }
    /\ pc' = "crop"
    /\ UNCHANGED <<outsideTry, detections, polygonPoints>>

\* "Crop mask to bounding box region"
TryCrop ==
    /\ pc = "crop"
    /\ tryLocals' = [tryLocals EXCEPT !.croppedMask = croppedMask(i)]
    /\ pc' = "path"
    /\ UNCHANGED <<outsideTry, detections, reconstructed, polygonPoints>>

\* "maskPath = maskToSvgPath(croppedMask, cropW, cropH, 0.5)", then the push
TryPath ==
    /\ pc = "path"
    /\ tryLocals' = [tryLocals EXCEPT
                        !.points = BoundaryPoints(tryLocals.croppedMask, cropW(i), cropH(i), Num(1, 2)),
                        !.maskPath = StringPath(maskToSvgPath(tryLocals.croppedMask,
                                                              cropW(i), cropH(i), Num(1, 2)))]
    /\ detections' = Append(detections, Detection(i, tryLocals'.maskPath))
    /\ pc' = "fit"
    /\ UNCHANGED <<outsideTry, reconstructed, polygonPoints>>

\* parseFloat of a coordinate "66.7%": the digits before the point and the
\* one digit toFixed(1) wrote after it, read as a decimal number (the
\* trailing % is ignored)
parseFloat(token) ==
    LET tenths == MathFloor(Mul(token, IntNum(10)))
        whole == tenths \div 10
        digit == tenths % 10
    IN  Add(IntNum(whole), Num(digit, 10))

\* true when the string holds polygon(...) with something between the
\* parentheses: the regular expression of parsePolygon finds a match
MatchesPolygon(str) == str # EmptyString

\* faulty variant of parsePolygon: the percentages are not divided by 100
parsePolygonPercent(str) ==
    IF ~MatchesPolygon(str) THEN <<>>
    ELSE [k \in 1..Len(str) |-> [x |-> parseFloat(str[k].x), y |-> parseFloat(str[k].y)]]

\* parsePolygon: the pairs of the string as points normalised to 0-1,
\* pairs with a NaN coordinate left out
parsePolygon(str) ==
    IF ~MatchesPolygon(str) THEN <<>>
    ELSE LET parsed == [k \in 1..Len(str) |->
                           [x |-> Divide(parseFloat(str[k].x), IntNum(100)),
                            y |-> Divide(parseFloat(str[k].y), IntNum(100))]]
             Numeric(q) == ~IsNaN(q.x) /\ ~IsNaN(q.y)
         IN  SelectSeq(parsed, Numeric)

\* a string is truthy unless it is empty; undefined is falsy
Truthy(path) == path.defined /\ path.string # EmptyString

\* fitTextToBubble(element, bubble.maskPath)
FitTextToBubble ==
    /\ pc = "fit"
    /\ polygonPoints' = IF Truthy(detections[1].maskPath)
                         THEN [isNull |-> FALSE, points |-> parsePolygon(detections[1].maskPath.string)]
                         ELSE Null
    /\ pc' = "fitted"
    /\ UNCHANGED <<outsideTry, detections, tryLocals, reconstructed>>

MaskNext ==
    \/ TryExtractCoeffs
    \/ TryBuildMask
    \/ TryCrop
    \/ TryPath
    \/ FitTextToBubble

MaskSpec == MaskInit /\ [][MaskNext]_vars

---------------------------------------------------------------------------
(* The same try block over prototype grids of several shapes: protoDims[2]  *)
(* (maskH) and protoDims[3] (maskW) are read from the tensor, so a grid need *)
(* not be square                                                             *)

GridProtoTensors ==
    { [defined |-> TRUE, dims |-> <<1, numMaskCoeffs, h, 4>>, data |-> "blob"] : h \in {2, 4, 8} }

GridInit ==
    /\ output \in MaskTensors
    /\ maskProtos \in GridProtoTensors
    /\ \E img \in Images : originalWidth = img.width /\ originalHeight = img.height
    /\ confidenceThreshold = Num(90, 100)
    /\ nmsThreshold = Num(1, 2)
    /\ scale = LetterboxScale(originalWidth, originalHeight)
    /\ offsetX = LetterboxOffset(originalWidth, scale)
    /\ offsetY = LetterboxOffset(originalHeight, scale)
    /\ pc = "try"
    /\ i = 0
    /\ detections = <<>> /\ rawDetections = <<>>
    /\ sorted = <<>> /\ keep = <<>> /\ used = {}
    /\ bubbles = <<>>
    /\ thrown = FALSE
    /\ failed = {}
    /\ preprocess = PreprocessLetterbox(originalWidth, originalHeight)
    /\ pixel = Origin
    /\ drawn = DrawImage(preprocess, originalWidth, originalHeight, pixel)
    /\ restored = Origin
    /\ unclamped = NoCorners
    /\ tryLocals = NoLocals
    /\ reconstructed = {}
    /\ polygonPoints = Null
    /\ previous = NoRun
    /\ copy = "yolo-inference.ts"
    /\ ModulesLoaded
    /\ message = NoMessage

GridSpec == GridInit /\ [][MaskNext]_vars

---------------------------------------------------------------------------
(* loadModel of yolo-inference.ts: the session, the promise of the load in *)
(* flight and the stored error.  JavaScript runs each stretch of code      *)
(* between two awaits without interruption, so each action is one stretch. *)

\* bound: the number of loadModel calls
MaxCalls == 4

\* the state outside loadModel
outsideLoader == <<output, maskProtos, originalWidth, originalHeight, confidenceThreshold,
                   nmsThreshold, scale, offsetX, offsetY, pc, i, detections, rawDetections,
                   sorted, keep, used, bubbles, thrown, failed, preprocess, pixel, drawn,
                   restored, unclamped, tryLocals, reconstructed, polygonPoints, previous,
                   message, copy, detectionCache, requests>>

LoaderInit ==
    /\ output = [dims |-> <<1, 4 + 1 + numMaskCoeffs, 0>>, cand |-> <<>>]
    /\ maskProtos = UndefinedTensor
    /\ \E img \in Images : originalWidth = img.width /\ originalHeight = img.height
    /\ confidenceThreshold = Num(1, 4)
    /\ nmsThreshold = Num(1, 2)
    /\ scale = LetterboxScale(originalWidth, originalHeight)
    /\ offsetX = LetterboxOffset(originalWidth, scale)
    /\ offsetY = LetterboxOffset(originalHeight, scale)
    /\ pc = "loadModel"
    /\ i = 0
    /\ detections = <<>> /\ rawDetections = <<>>
    /\ sorted = <<>> /\ keep = <<>> /\ used = {}
    /\ bubbles = <<>>
    /\ thrown = FALSE
    /\ failed = {}
    /\ preprocess = PreprocessLetterbox(originalWidth, originalHeight)
    /\ pixel = Origin
    /\ drawn = DrawImage(preprocess, originalWidth, originalHeight, pixel)
    /\ restored = Origin
    /\ unclamped = NoCorners
    /\ tryLocals = NoLocals
    /\ reconstructed = {}
    /\ polygonPoints = Null
    /\ previous = NoRun
    /\ message = NoMessage
    /\ copy = "yolo-inference.ts"
    /\ session = null /\ loadingPromise = null /\ sessionError = null
    /\ loads = <<>>
    /\ calls = <<>>
    /\ modelCached \in BOOLEAN
    /\ retryArmed = FALSE
    /\ detectionCache = <<>>
    /\ requests = <<>>

\* faulty variant of LoadInFlight: the promise of a load in flight is ignored
NeverInFlight == FALSE

\* "if (loadingPromise)"
LoadInFlight == loadingPromise # null

\* what a call of loadModel is handed by its synchronous part: the session,
\* the stored error, the promise of the load in flight, or the promise of
\* the load it starts itself (load number Len(loads) + 1)
Handed ==
    IF session # null THEN [kind |-> "session", value |-> session, started |-> FALSE]
    ELSE IF sessionError # null THEN [kind |-> "error", value |-> sessionError, started |-> FALSE]
    ELSE IF LoadInFlight THEN [kind |-> "promise", value |-> loadingPromise, started |-> FALSE]
    ELSE [kind |-> "promise", value |-> Len(loads) + 1, started |-> TRUE]

\* loadModel is called.  A call that starts a load runs the async body up
\* to "await getCachedModel()" and stores its promise in loadingPromise
LoadModel ==
    /\ Len(calls) < MaxCalls
    /\ calls' = Append(calls, [handed |-> Handed, received |-> "pending", value |-> null,
                               errorAtCall |-> sessionError, retry |-> retryArmed])
    /\ IF Handed.started
       THEN /\ loads' = Append(loads, [pc |-> "getCachedModel", downloaded |-> FALSE,
                                       creating |-> FALSE])
            /\ loadingPromise' = Len(loads) + 1
       ELSE UNCHANGED <<loads, loadingPromise>>
    /\ retryArmed' = FALSE
    /\ UNCHANGED <<session, sessionError, modelCached, outsideLoader>>

\* getCachedModel resolves: with the stored model, and InferenceSession.create
\* is called, or with null, and downloadModel is called
GetCachedModelResolves ==
    \E l \in 1..Len(loads) :
        /\ loads[l].pc = "getCachedModel"
        /\ loads' = [loads EXCEPT ![l] =
                        IF modelCached
                        THEN [@ EXCEPT !.pc = "create", !.creating = TRUE]
                        ELSE [@ EXCEPT !.pc = "downloadModel", !.downloaded = TRUE]]
        /\ UNCHANGED <<session, loadingPromise, sessionError, calls, modelCached, retryArmed,
                       outsideLoader>>

\* downloadModel resolves: cacheModel is called
DownloadModelResolves ==
    \E l \in 1..Len(loads) :
        /\ loads[l].pc = "downloadModel"
        /\ loads' = [loads EXCEPT ![l].pc = "cacheModel"]
        /\ UNCHANGED <<session, loadingPromise, sessionError, calls, modelCached, retryArmed,
                       outsideLoader>>

\* cacheModel resolves, the model is in IndexedDB: InferenceSession.create is called
CacheModelResolves ==
    \E l \in 1..Len(loads) :
        /\ loads[l].pc = "cacheModel"
        /\ loads' = [loads EXCEPT ![l] = [@ EXCEPT !.pc = "create", !.creating = TRUE]]
        /\ modelCached' = TRUE
        /\ UNCHANGED <<session, loadingPromise, sessionError, calls, retryArmed, outsideLoader>>

\* "session = await ort.InferenceSession.create(...)", "return session", and
\* the finally clause
CreateResolves ==
    \E l \in 1..Len(loads) :
        /\ loads[l].pc = "create"
        /\ session' = l
        /\ loads' = [loads EXCEPT ![l].pc = "resolved"]
        /\ loadingPromise' = IF sessionError # null THEN null ELSE loadingPromise
        /\ UNCHANGED <<sessionError, calls, modelCached, retryArmed, outsideLoader>>

\* the caller's "await loadModel()" continues with what the call was handed:
\* a session, a rejection, or the outcome of the promise once it is settled
CallContinues ==
    \E k \in 1..Len(calls) :
        /\ calls[k].received = "pending"
        /\ LET h == calls[k].handed
           IN  /\ h.kind = "promise" => loads[h.value].pc \in {"resolved", "rejected"}
               /\ calls' = [calls EXCEPT ![k] =
                     CASE h.kind = "session" -> [@ EXCEPT !.received = "session", !.value = h.value]
                       [] h.kind = "error" -> [@ EXCEPT !.received = "error", !.value = h.value]
                       [] OTHER ->
                            IF loads[h.value].pc = "resolved"
                            THEN [@ EXCEPT !.received = "session", !.value = h.value]
                            ELSE [@ EXCEPT !.received = "error", !.value = h.value]]
        /\ UNCHANGED <<session, loadingPromise, sessionError, loads, modelCached, retryArmed,
                       outsideLoader>>

\* no load fails, neither clearModelCache nor resetSessionError runs
LoaderNext ==
    \/ LoadModel
    \/ GetCachedModelResolves
    \/ DownloadModelResolves
    \/ CacheModelResolves
    \/ CreateResolves
    \/ CallContinues

LoaderSpec == LoaderInit /\ [][LoaderNext]_vars

\* an await of the async body rejects (IndexedDB, fetch or
\* InferenceSession.create): the catch clause stores the error, the finally
\* clause clears loadingPromise
LoadRejects ==
    \E l \in 1..Len(loads) :
        /\ loads[l].pc \in {"getCachedModel", "downloadModel", "cacheModel", "create"}
        /\ sessionError' = l
        /\ loadingPromise' = null
        /\ loads' = [loads EXCEPT ![l].pc = "rejected"]
        /\ UNCHANGED <<session, calls, modelCached, retryArmed, outsideLoader>>

\* resetSessionError()
ResetSessionError ==
    /\ sessionError' = null
    /\ loadingPromise' = null
    /\ retryArmed' = (retryArmed \/ sessionError # null)
    /\ UNCHANGED <<session, loads, calls, modelCached, outsideLoader>>

\* clearModelCache(): request.onsuccess of the delete
ClearModelCache ==
    /\ modelCached' = FALSE
    /\ session' = null
    /\ loadingPromise' = null
    /\ sessionError' = null
    /\ UNCHANGED <<loads, calls, retryArmed, outsideLoader>>

\* bound: the number of loadModel calls when loads fail and are retried
MaxRetryCalls == 3

\* loadModel is called, while fewer than MaxRetryCalls calls were made
RetryLoadModel ==
    /\ Len(calls) < MaxRetryCalls
    /\ LoadModel

RetryNext ==
    \/ RetryLoadModel
    \/ GetCachedModelResolves
    \/ DownloadModelResolves
    \/ CacheModelResolves
    \/ CreateResolves
    \/ CallContinues
    \/ LoadRejects
    \/ ResetSessionError
    \/ ClearModelCache

RetrySpec == LoaderInit /\ [][RetryNext]_vars

---------------------------------------------------------------------------
(* The detection cache of comic-detector.ts.  A Map keeps its keys in the  *)
(* order of their first insertion; it is modelled as the sequence of its   *)
(* entries.  Image URLs are numbered; 0 stands for the empty string, the   *)
(* one string that is falsy.                                               *)

MAX_CACHE_SIZE == 100

\* bound: the number of detectBubblesInImage calls
MaxRequests == 3

\* the empty string as imageUrl
EmptyUrl == 0

\* the URLs of the calls: the empty string, URLs a filled cache holds
\* (its oldest and its newest) and URLs it does not hold
RequestUrls == {EmptyUrl, 1, MAX_CACHE_SIZE - 1, MAX_CACHE_SIZE + 1, MAX_CACHE_SIZE + 2}

\* the cache after n successful detections of the URLs first, first + 1, ...
\* made one after the other
FilledCache(first, n) == [k \in 1..n |-> [key |-> first + k - 1, value |-> first + k - 1]]

\* the state outside the detection cache
outsideCache == <<output, maskProtos, originalWidth, originalHeight, confidenceThreshold,
                  nmsThreshold, scale, offsetX, offsetY, pc, i, detections, rawDetections,
                  sorted, keep, used, bubbles, thrown, failed, preprocess, pixel, drawn,
                  restored, unclamped, tryLocals, reconstructed, polygonPoints, previous,
                  message, copy, session, loadingPromise, sessionError, loads, calls,
                  modelCached, retryArmed>>

CacheInit ==
    /\ \E first \in {EmptyUrl, 1}, n \in {0, MAX_CACHE_SIZE - 1, MAX_CACHE_SIZE} :
          detectionCache = FilledCache(first, n)
    /\ requests = <<>>
    /\ output = [dims |-> <<1, 4 + 1 + numMaskCoeffs, 0>>, cand |-> <<>>]
    /\ maskProtos = UndefinedTensor
    /\ \E img \in Images : originalWidth = img.width /\ originalHeight = img.height
    /\ confidenceThreshold = Num(1, 2)
    /\ nmsThreshold = Num(1, 2)
    /\ scale = LetterboxScale(originalWidth, originalHeight)
    /\ offsetX = LetterboxOffset(originalWidth, scale)
    /\ offsetY = LetterboxOffset(originalHeight, scale)
    /\ pc = "detectBubblesInImage"
    /\ i = 0
    /\ detections = <<>> /\ rawDetections = <<>>
    /\ sorted = <<>> /\ keep = <<>> /\ used = {}
    /\ bubbles = <<>>
    /\ thrown = FALSE
    /\ failed = {}
    /\ preprocess = PreprocessLetterbox(originalWidth, originalHeight)
    /\ pixel = Origin
    /\ drawn = DrawImage(preprocess, originalWidth, originalHeight, pixel)
    /\ restored = Origin
    /\ unclamped = NoCorners
    /\ tryLocals = NoLocals
    /\ reconstructed = {}
    /\ polygonPoints = Null
    /\ previous = NoRun
    /\ message = NoMessage
    /\ copy = "yolo-inference.ts"
    /\ session = null /\ loadingPromise = null /\ sessionError = null
    /\ loads = <<>>
    /\ calls = <<>>
    /\ modelCached = FALSE
    /\ retryArmed = FALSE

\* detectionCache.has(url)
CacheHas(url) == \E k \in 1..Len(detectionCache) : detectionCache[k].key = url

\* "if (firstKey)": a string is truthy unless it is empty
TruthyKey(key) == key # EmptyUrl

\* detectionCache.set(url, result) on the entries m: a key already present
\* keeps its place and takes the new value, a new key goes to the end
MapSet(m, url, result) ==
    IF \E k \in 1..Len(m) : m[k].key = url
    THEN [k \in 1..Len(m) |-> IF m[k].key = url THEN [key |-> url, value |-> result] ELSE m[k]]
    ELSE Append(m, [key |-> url, value |-> result])

\* detectBubblesInImage(url) up to its await: a cached result is returned,
\* otherwise detectBubbles is called
DetectBubblesInImage ==
    \E url \in RequestUrls :
        /\ Len(requests) < MaxRequests
        /\ requests' = Append(requests,
                               [url |-> url,
                                pc |-> IF CacheHas(url) THEN "cached" ELSE "detectBubbles",
                                sizeBefore |-> 0, oldest |-> EmptyUrl, removed |-> <<>>,
                                stored |-> FALSE])
        /\ UNCHANGED <<detectionCache, outsideCache>>

\* detectBubbles resolves: the oldest entry is removed from a full cache,
\* the result is stored and returned
DetectBubblesResolves ==
    \E r \in 1..Len(requests) :
        /\ requests[r].pc = "detectBubbles"
        /\ LET full == Len(detectionCache) >= MAX_CACHE_SIZE
               firstKey == detectionCache[1].key
               evict == full /\ TruthyKey(firstKey)
               afterDelete == IF evict THEN Tail(detectionCache) ELSE detectionCache
           IN  /\ detectionCache' = MapSet(afterDelete, requests[r].url, requests[r].url)
               /\ requests' = [requests EXCEPT ![r] =
                     [@ EXCEPT !.pc = "returned",
                               !.sizeBefore = Len(detectionCache),
                               !.oldest = IF full THEN firstKey ELSE EmptyUrl,
                               !.removed = IF evict THEN <<firstKey>> ELSE <<>>,
                               !.stored = TRUE]]
        /\ UNCHANGED outsideCache

\* detectBubbles rejects (the model does not load, the image does not load,
\* inference fails): the call rejects before the cache is touched
DetectBubblesRejects ==
    \E r \in 1..Len(requests) :
        /\ requests[r].pc = "detectBubbles"
        /\ requests' = [requests EXCEPT ![r].pc = "rejected"]
        /\ UNCHANGED <<detectionCache, outsideCache>>

\* clearDetectionCache()
ClearDetectionCache ==
    /\ detectionCache # <<>>
    /\ detectionCache' = <<>>
    /\ UNCHANGED <<requests, outsideCache>>

CacheNext ==
    \/ DetectBubblesInImage
    \/ DetectBubblesResolves
    \/ DetectBubblesRejects
    \/ ClearDetectionCache

CacheSpec == CacheInit /\ [][CacheNext]_vars

---------------------------------------------------------------------------
(* Properties *)

Indices(s) == 1..Len(s)

\* the box indices below n whose confidence is not below the threshold,
\* in increasing order
PassingIndices(n) ==
    LET Passes(b) == ~Lt(confidence(b), confidenceThreshold)
    IN  SelectSeq([k \in 1..n |-> k - 1], Passes)

BoxOf(b) == [x1 |-> clampedX1(b), y1 |-> clampedY1(b),
             x2 |-> clampedX2(b), y2 |-> clampedY2(b)]

\* every detection held anywhere in the pipeline
AllDetections == Elements(detections) \cup Elements(rawDetections) \cup Elements(bubbles)

\* C1: every pair of distinct detections returned by nms (and so by
\* detectBubbles) has IoU(a, b) <= nmsThreshold, degenerate boxes included.
C1_ReturnedPairsWithinThreshold ==
    pc = "done" =>
        \A p \in Indices(bubbles), q \in Indices(bubbles) :
            p # q => Le(calculateIoU(bubbles[p], bubbles[q]), nmsThreshold)

\* C2: every detection parseOutput emits has bbox.x1 and bbox.x2 inside
\* [0, originalWidth] and bbox.y1 and bbox.y2 inside [0, originalHeight].
C2_BoxInsideImage ==
    \A d \in AllDetections :
        /\ Le(Zero, d.bbox.x1) /\ Le(d.bbox.x1, IntNum(originalWidth))
        /\ Le(Zero, d.bbox.x2) /\ Le(d.bbox.x2, IntNum(originalWidth))
        /\ Le(Zero, d.bbox.y1) /\ Le(d.bbox.y1, IntNum(originalHeight))
        /\ Le(Zero, d.bbox.y2) /\ Le(d.bbox.y2, IntNum(originalHeight))

\* C2 witness: a detection was emitted for a box that lies wholly in the
\* letterbox padding, and one for a box reaching outside the input square.
C2_Witness ==
    /\ pc = "done"
    /\ \E b \in 0..(numBoxes - 1) :
          /\ ~Lt(confidence(b), confidenceThreshold)
          /\ Lt(x2Letterbox(b), offsetX) /\ Lt(Zero, offsetX)
    /\ \E b \in 0..(numBoxes - 1) :
          /\ ~Lt(confidence(b), confidenceThreshold)
          /\ Lt(IntNum(INPUT_SIZE), x1Letterbox(b)) /\ Lt(y1Letterbox(b), Zero)
    /\ Len(rawDetections) = 2

\* C3: every detection has bbox.x1 <= bbox.x2 and bbox.y1 <= bbox.y2,
\* whatever width and height the raw tensor holds.
C3_CornersOrdered ==
    \A d \in AllDetections :
        Le(d.bbox.x1, d.bbox.x2) /\ Le(d.bbox.y1, d.bbox.y2)

\* C4: every detection that survives decoding and suppression has a
\* confidence inside [0, 1].
C4_ConfidenceInUnitInterval ==
    pc = "done" =>
        \A p \in Indices(bubbles) :
            Le(Zero, bubbles[p].confidence) /\ Le(bubbles[p].confidence, IntNum(1))

\* dets holds exactly one detection per passing index below n, in index order
EmittedFor(dets, n) ==
    LET kept == PassingIndices(n)
    IN  /\ Len(dets) = Len(kept)
        /\ \A j \in Indices(kept) :
              /\ dets[j].confidence = confidence(kept[j])
              /\ dets[j].bbox = BoxOf(kept[j])

\* C5: parseOutput emits exactly one detection for each box index whose
\* confidence is not below confidenceThreshold (equal is kept), in increasing
\* index order, and none for any other index; degenerate boxes are emitted.
C5_OnePerPassingIndex ==
    /\ pc = "parseOutput" => Len(detections) = Len(PassingIndices(i))
    /\ pc = "nms" => EmittedFor(rawDetections, numBoxes)

\* C5 witness: parseOutput has returned a detection for a box whose
\* confidence equals the threshold and whose decoded width is zero.
C5_Witness ==
    /\ pc = "nms"
    /\ \E j \in Indices(rawDetections) :
          /\ rawDetections[j].confidence = confidenceThreshold
          /\ rawDetections[j].bbox.x1 = rawDetections[j].bbox.x2

\* C6: when every candidate has confidence below confidenceThreshold the
\* pipeline returns an empty detection list and raises no error.
C6_AllBelowGivesEmpty ==
    (pc = "done" /\ \A b \in 0..(numBoxes - 1) : Lt(confidence(b), confidenceThreshold))
        => bubbles = <<>> /\ ~thrown

\* C6 witness: a single candidate at 0.9 against a threshold of 0.95.
C6_Witness ==
    /\ pc = "done"
    /\ numBoxes = 1
    /\ confidence(0) = Num(90, 100)
    /\ confidenceThreshold = Num(95, 100)
    /\ bubbles = <<>>

\* C7: for two candidates whose boxes have IoU above nmsThreshold, nms
\* returns exactly one detection, the one with the higher confidence,
\* whatever their order in the input list.
C7_HigherConfidenceSurvives ==
    (/\ pc = "done"
     /\ Len(rawDetections) = 2
     /\ Gt(calculateIoU(rawDetections[1], rawDetections[2]), nmsThreshold))
        => /\ Len(bubbles) = 1
           /\ bubbles[1] \in Elements(rawDetections)
           /\ \A r \in Elements(rawDetections) : ~Lt(bubbles[1].confidence, r.confidence)

\* C7 witness: IoU 0.6 against a threshold of 0.5, the lower confidence first
\* in the input list, the second candidate alone returned.
C7_Witness ==
    /\ pc = "done"
    /\ Len(rawDetections) = 2
    /\ calculateIoU(rawDetections[1], rawDetections[2]) = Num(3, 5)
    /\ nmsThreshold = Num(1, 2)
    /\ Lt(rawDetections[1].confidence, rawDetections[2].confidence)
    /\ bubbles = <<rawDetections[2]>>

\* C8: for well-formed tensors the pipeline never throws, and when the
\* prototype-mask tensor is absent every detection has its maskPath
\* undefined while boxes and confidences are still produced.
C8_NoThrowAndNoPathWithoutProtos ==
    /\ ~thrown
    /\ ~maskProtos.defined =>
          /\ \A d \in AllDetections : ~d.maskPath.defined
          /\ pc = "done" => EmittedFor(rawDetections, numBoxes)
          /\ (pc = "done" /\ rawDetections # <<>>) => bubbles # <<>>

\* C8 witness: a run without prototypes has returned detections.
C8_Witness ==
    /\ pc = "done"
    /\ ~maskProtos.defined
    /\ Len(bubbles) = 2

\* a formatted coordinate is toFixed(1) of cell / size * 100 for a cell of the crop
IsCropPercentage(v, size) ==
    \E cell \in 0..(size - 1) :
        v = ToFixed1(Mul(Divide(IntNum(cell), IntNum(size)), IntNum(100)))

\* the detection last pushed is the one of box i - 1
LastPushed == detections[Len(detections)]
JustPushed ==
    /\ pc = "parseOutput" /\ i > 0
    /\ ~Lt(confidence(i - 1), confidenceThreshold)

C10_MaskFailureIsLocal ==
    /\ ~thrown
    /\ pc = "nms" =>
          LET kept == PassingIndices(numBoxes)
          IN  /\ Len(rawDetections) = Len(kept)
              /\ \A j \in Indices(kept) :
                    /\ rawDetections[j].confidence = confidence(kept[j])
                    /\ rawDetections[j].bbox = BoxOf(kept[j])
                    /\ kept[j] \in failed => ~rawDetections[j].maskPath.defined
                    /\ (kept[j] \notin failed /\ maskProtos.defined) =>
                          rawDetections[j].maskPath = BuiltMaskPath(kept[j])

\* C10 witness: the first candidate's mask failed, the second carries its polygon.
C10_Witness ==
    /\ pc = "nms"
    /\ failed = {0}
    /\ Len(rawDetections) = 2
    /\ ~rawDetections[1].maskPath.defined
    /\ Len(rawDetections[2].maskPath.string) >= 3

\* C11: a raw detection tensor of malformed shape or rank (wrong number of
\* dimensions, a feature count other than 4 + 1 + 32, a buffer shorter than
\* features * numBoxes) makes the pipeline fail fast: an error reaches the
\* caller and no detections are returned.
C11_MalformedTensorFailsFast ==
    (pc = "done" /\ ~WellFormed(output)) => (thrown /\ bubbles = <<>>)

\* C12: calculateIoU guards a zero union: for every pair of boxes nms
\* compares, two zero-area boxes included, it returns a defined number, never
\* NaN and never the result of a division by zero.
C12_IoUIsDefinedNumber ==
    pc = "nmsLoop" =>
        \A p \in Indices(sorted), q \in Indices(sorted) :
            p < q => IsFinite(calculateIoU(sorted[p], sorted[q]))

\* C13: the letterbox of decoding is scale = min(640 / width, 640 / height)
\* and offset = (640 - side * scale) / 2 on each axis, and a model-space
\* corner p decodes to (p - offset) / scale before clamping; a 1000 x 2000
\* image gives scale 0.32, offsetX 160, offsetY 0, and the box with centre
\* (320, 100), width 80, height 40 decodes to x1 = 375.
C13_LetterboxGolden ==
    pc = "decoded" =>
        LET w == IntNum(originalWidth)
            h == IntNum(originalHeight)
            side == IntNum(INPUT_SIZE)
        IN  /\ Le(Mul(w, scale), side) /\ Le(Mul(h, scale), side)
            /\ Mul(w, scale) = side \/ Mul(h, scale) = side
            /\ Add(Mul(offsetX, IntNum(2)), Mul(w, scale)) = side
            /\ Add(Mul(offsetY, IntNum(2)), Mul(h, scale)) = side
            /\ Add(Mul(unclamped.x1, scale), offsetX) = x1Letterbox(0)
            /\ Add(Mul(unclamped.y2, scale), offsetY) = y2Letterbox(0)
            /\ (originalWidth = 1000 /\ originalHeight = 2000) =>
                  /\ scale = Num(32, 100) /\ offsetX = IntNum(160) /\ offsetY = Zero
                  /\ (xCenter(0) = IntNum(320) /\ width(0) = IntNum(80)) =>
                        unclamped.x1 = IntNum(375)

\* C13 witness: the golden box has been decoded in the 1000 x 2000 image.
C13_Witness ==
    /\ pc = "decoded"
    /\ originalWidth = 1000 /\ originalHeight = 2000
    /\ xCenter(0) = IntNum(320) /\ yCenter(0) = IntNum(100)
    /\ width(0) = IntNum(80) /\ height(0) = IntNum(40)
    /\ unclamped.x1 = IntNum(375)

\* C14: mapping a source point into model-input space as preprocessImage
\* draws it (offset + p * scale) and back as parseOutput decodes it
\* ((p - offset) / scale) returns the point, and both functions derive the
\* same scale and offsets from the image dimensions.
C14_RoundTripIsIdentity ==
    pc = "decoded" =>
        /\ restored = pixel
        /\ drawn.x = Add(offsetX, Mul(pixel.x, scale))
        /\ drawn.y = Add(offsetY, Mul(pixel.y, scale))
        /\ preprocess.scale = scale
        /\ preprocess.offsetX = offsetX
        /\ preprocess.offsetY = offsetY

\* C14 witness: a pixel off the origin went through a letterbox with a
\* fractional scale and padding on the left, and came back.
C14_Witness ==
    /\ pc = "decoded"
    /\ originalWidth = 333
    /\ pixel.x = IntNum(333) /\ pixel.y = IntNum(77)
    /\ Lt(Zero, offsetX)
    /\ drawn # pixel
    /\ restored = pixel

\* the steps of the try block that have run
MaskBuilt == pc \in {"crop", "path", "fit", "fitted"}
MaskCropped == pc \in {"path", "fit", "fitted"}
PathBuilt == pc \in {"fit", "fitted"}

\* C15 as stated: serializing the collected boundary points to the
\* polygon(...) string and parsing it back yields the same set of points,
\* with the same number of distinct points, for every set of points
\* maskToSvgPath can collect.
C15_ParseReturnsCollectedPoints ==
    PathBuilt =>
        LET parsed == parsePolygon(tryLocals.maskPath.string)
        IN  /\ { [x |-> Mul(q.x, IntNum(100)), y |-> Mul(q.y, IntNum(100))] : q \in Elements(parsed) }
                  = Elements(tryLocals.points)
            /\ Cardinality(Elements(parsed)) = Cardinality(Elements(tryLocals.points))

\* C15 as amended: when at least 3 boundary points were collected, parsing
\* the serialized path yields as many points, each the collected point
\* rounded to one decimal of a percent (at most 0.05 away) and divided by
\* 100, distinct points staying distinct; when fewer than 3 were collected
\* the path is the empty string and nothing is parsed back.
C15_ParseReturnsRoundedPoints ==
    PathBuilt =>
        LET parsed == parsePolygon(tryLocals.maskPath.string)
            points == tryLocals.points
            Close(a, b) == Le(Sub(a, b), Num(1, 20)) /\ Le(Sub(b, a), Num(1, 20))
        IN  IF Len(points) >= 3
            THEN /\ Len(parsed) = Len(points)
                 /\ Elements(parsed) =
                       { [x |-> Divide(ToFixed1(r.x), IntNum(100)),
                          y |-> Divide(ToFixed1(r.y), IntNum(100))] : r \in Elements(points) }
                 /\ \A q \in Elements(parsed) : \E r \in Elements(points) :
                       /\ Close(Mul(q.x, IntNum(100)), r.x)
                       /\ Close(Mul(q.y, IntNum(100)), r.y)
                 /\ Cardinality(Elements(parsed)) = Cardinality(Elements(points))
                 /\ pc = "fitted" => polygonPoints = [isNull |-> FALSE, points |-> parsed]
            ELSE /\ parsed = <<>>
                 /\ pc = "fitted" => polygonPoints = Null

\* C15 witness: a path whose points include a coordinate that one decimal
\* cannot hold (2 / 3 of the crop width) has been parsed.
C15_Witness ==
    /\ pc = "fitted"
    /\ ~polygonPoints.isNull
    /\ \E r \in Elements(tryLocals.points) : r.x = Num(200, 3)
    /\ \E q \in Elements(polygonPoints.points) : q.x = Num(667, 1000)

\* C16: with an all-zero prototype tensor every reconstructed mask value is
\* sigmoid(0) = 0.5 for every coefficient vector, and since the inside test
\* is strict a value equal to the threshold is outside: no boundary point is
\* collected and the detection gets no polygon.
C16_ZeroPrototypesGiveNoPolygon ==
    maskProtos.data = "zeros" =>
        /\ MaskBuilt => \A idx \in DOMAIN tryLocals.mask : tryLocals.mask[idx] = Num(1, 2)
        /\ MaskCropped =>
              \A idx \in DOMAIN tryLocals.croppedMask : tryLocals.croppedMask[idx] = Num(1, 2)
        /\ PathBuilt =>
              /\ tryLocals.points = <<>>
              /\ tryLocals.maskPath.string = EmptyString
              /\ detections[1].maskPath.string = EmptyString
        /\ pc = "fitted" => polygonPoints = Null

\* C16 witness: a box covering the whole grid, with a non-zero coefficient
\* vector, went through the all-zero prototypes.
C16_Witness ==
    /\ pc = "fitted"
    /\ maskProtos.data = "zeros"
    /\ cropW(0) * cropH(0) = maskW * maskH
    /\ \E c \in DOMAIN tryLocals.maskCoeffs : tryLocals.maskCoeffs[c] # Zero
    /\ polygonPoints = Null

\* the prototype-grid cell the crop cell (x, y) of box b maps to
GridCell(b, x, y) ==
    LET gx == mx1(b) + x
        gy == my1(b) + y
    IN  [x |-> IF gx < 0 THEN 0 ELSE IF gx > maskW - 1 THEN maskW - 1 ELSE gx,
         y |-> IF gy < 0 THEN 0 ELSE IF gy > maskH - 1 THEN maskH - 1 ELSE gy]

\* the sum over c in 0..31 of data[(5 + c) * numBoxes + b] * prototype[c][y][x]
DotProduct(b, cell) ==
    SumSeq([k \in 1..numMaskCoeffs |->
               Mul(DataAt(output, (5 + (k - 1)) * numBoxes + b),
                   IntNum(ProtoAt(maskProtos, (k - 1) * maskH * maskW + cell.y * maskW + cell.x)))])

C20_DotProductsOnlyInCrop ==
    MaskBuilt =>
        /\ reconstructed \subseteq
              { GridCell(i, x, y) : x \in 0..(cropW(i) - 1), y \in 0..(cropH(i) - 1) }
        /\ Cardinality(reconstructed) <= cropW(i) * cropH(i)

C18_SuppliedThresholdsAreUsed ==
    (pc # "onMessage" /\ message.type = "YOLO_DETECT") =>
        /\ message.confidenceThreshold.supplied =>
              /\ confidenceThreshold = message.confidenceThreshold.value
              /\ pc = "nms" =>
                    Len(rawDetections) =
                        Cardinality({ b \in 0..(numBoxes - 1) :
                                        ~Lt(confidence(b), message.confidenceThreshold.value) })
        /\ message.nmsThreshold.supplied => nmsThreshold = message.nmsThreshold.value
        /\ ~message.confidenceThreshold.supplied => confidenceThreshold = Num(1, 2)
        /\ ~message.nmsThreshold.supplied => nmsThreshold = Num(1, 2)

\* C21: the crop rectangle of a candidate is its box in model-input space
\* scaled per axis, by maskW / INPUT_SIZE along x and maskH / INPUT_SIZE
\* along y, for every prototype grid, square or not.
C21_CropScaledPerAxis ==
    MaskCropped =>
        LET scaleX == Divide(IntNum(maskW), IntNum(INPUT_SIZE))
            scaleY == Divide(IntNum(maskH), IntNum(INPUT_SIZE))
            ex1 == MathFloor(Mul(x1Letterbox(i), scaleX))
            ey1 == MathFloor(Mul(y1Letterbox(i), scaleY))
            ex2 == MathCeil(Mul(x2Letterbox(i), scaleX))
            ey2 == MathCeil(Mul(y2Letterbox(i), scaleY))
        IN  /\ mx1(i) = ex1 /\ mx2(i) = ex2
            /\ my1(i) = ey1 /\ my2(i) = ey2
            /\ Cardinality(DOMAIN tryLocals.croppedMask)
                  = IntMax(1, ex2 - ex1) * IntMax(1, ey2 - ey1)

\* C26: for every candidate box, also one reaching outside the model-input
\* square or of non-positive width or height, the crop is at least one cell
\* wide and high and every cell it reads lies inside the prototype grid.
C26_CropReadsInsideGrid ==
    MaskCropped =>
        /\ cropW(i) >= 1 /\ cropH(i) >= 1
        /\ Cardinality(DOMAIN tryLocals.croppedMask) = cropW(i) * cropH(i)
        /\ \A x \in 0..(cropW(i) - 1) : srcX(i, x) \in 0..(maskW - 1)
        /\ \A y \in 0..(cropH(i) - 1) : srcY(i, y) \in 0..(maskH - 1)

\* a box of negative width reaching above the square has been cropped out of
\* a grid that is higher than wide
C26_Witness ==
    /\ MaskCropped
    /\ Lt(width(i), Zero) /\ Lt(y1Letterbox(i), Zero)
    /\ mx2(i) - mx1(i) < 1
    /\ my1(i) < 0
    /\ maskH > maskW

\* the cells of the crop whose value is above the threshold of 0.5
AboveInCrop(x, y) ==
    /\ x \in 0..(cropW(i) - 1) /\ y \in 0..(cropH(i) - 1)
    /\ Gt(tryLocals.croppedMask[y * cropW(i) + x], Num(1, 2))

\* the sample cells (both coordinates even) above the threshold
SampledAbove ==
    { c \in (0..(cropW(i) - 1)) \X (0..(cropH(i) - 1)) :
        c[1] % 2 = 0 /\ c[2] % 2 = 0 /\ AboveInCrop(c[1], c[2]) }

\* those of them with a 4-neighbour that is outside the crop or not above
SampledBoundary ==
    { c \in SampledAbove :
        \E d \in { <<-1, 0>>, <<1, 0>>, <<0, -1>>, <<0, 1>> } :
            ~AboveInCrop(c[1] + d[1], c[2] + d[2]) }

\* C22: maskToSvgPath collects exactly the stride-2 sample cells above the
\* threshold that have a 4-neighbour at or below it (a neighbour outside
\* the grid counts as below), each once, as (x/cropW*100, y/cropH*100);
\* no other cell yields a point.
C22_PointsAreSampledBoundaryCells ==
    PathBuilt =>
        /\ Elements(tryLocals.points) =
              { [x |-> Mul(Divide(IntNum(c[1]), IntNum(cropW(i))), IntNum(100)),
                 y |-> Mul(Divide(IntNum(c[2]), IntNum(cropH(i))), IntNum(100))] :
                  c \in SampledBoundary }
        /\ Len(tryLocals.points) = Cardinality(SampledBoundary)

\* a path was built from a crop in which one sampled cell above the
\* threshold is interior and yields no point while others do
C22_Witness ==
    /\ PathBuilt
    /\ SampledBoundary # {}
    /\ SampledAbove \ SampledBoundary # {}
    /\ Len(tryLocals.points) >= 3

\* the positions of sorted the greedy rule keeps among the first k: a
\* position is kept when no position kept before it has an IoU with it
\* strictly greater than nmsThreshold
RECURSIVE GreedyKept(_)
GreedyKept(k) ==
    IF k = 0 THEN <<>>
    ELSE LET before == GreedyKept(k - 1)
         IN  IF \E m \in 1..Len(before) :
                    Gt(calculateIoU(sorted[before[m]], sorted[k]), nmsThreshold)
             THEN before
             ELSE Append(before, k)

\* s lists the elements of t in a non-increasing order of confidence
SortedDescending(s, t) ==
    /\ Len(s) = Len(t)
    /\ \A e \in Elements(s) \cup Elements(t) :
          Cardinality({ k \in 1..Len(s) : s[k] = e }) = Cardinality({ k \in 1..Len(t) : t[k] = e })
    /\ \A k \in 1..(Len(s) - 1) : ~Lt(s[k].confidence, s[k + 1].confidence)

\* C23: nms is greedy over the candidates sorted by descending confidence:
\* a candidate is returned exactly when no candidate kept before it has an
\* IoU with it strictly greater than nmsThreshold; an IoU equal to the
\* threshold suppresses nothing and a suppressed candidate suppresses nobody.
C23_NmsIsGreedy ==
    pc = "done" =>
        /\ SortedDescending(sorted, rawDetections)
        /\ LET kept == GreedyKept(Len(sorted))
           IN  bubbles = [m \in 1..Len(kept) |-> sorted[kept[m]]]

\* three candidates were handed in: the first suppresses the second, the
\* second would suppress the third, the first and the third have an IoU
\* equal to the threshold, and the first and the third are returned
C23_Witness ==
    /\ pc = "done" /\ ~previous.ran
    /\ Len(sorted) = 3
    /\ Gt(calculateIoU(sorted[1], sorted[2]), nmsThreshold)
    /\ Gt(calculateIoU(sorted[2], sorted[3]), nmsThreshold)
    /\ calculateIoU(sorted[1], sorted[3]) = nmsThreshold
    /\ bubbles = <<sorted[1], sorted[3]>>

\* the list the running call of nms was handed
NmsInput == IF previous.ran THEN previous.bubbles ELSE detections

\* how often e occurs in the list s
Occurrences(s, e) == Cardinality({ k \in 1..Len(s) : s[k] = e })

\* C24: nms leaves the list it is handed as it was and returns a sub-list
\* of it: every returned detection is an input detection with all fields
\* unmodified, none is returned more often than it was handed in, the
\* output is in non-increasing order of confidence, and for a non-empty
\* input it holds a detection of the highest confidence.
C24_NmsReturnsSubList ==
    /\ rawDetections = NmsInput
    /\ pc = "done" =>
          /\ \A e \in Elements(bubbles) :
                e \in Elements(NmsInput) /\ Occurrences(bubbles, e) <= Occurrences(NmsInput, e)
          /\ \A k \in 1..(Len(bubbles) - 1) :
                ~Lt(bubbles[k].confidence, bubbles[k + 1].confidence)
          /\ NmsInput # <<>> =>
                \E e \in Elements(bubbles) :
                    \A f \in Elements(NmsInput) : ~Lt(e.confidence, f.confidence)

\* nms has returned for an input that was not in order of confidence, held
\* the same detection twice, and from which one detection was suppressed
C24_Witness ==
    /\ pc = "done" /\ ~previous.ran
    /\ Len(rawDetections) = 3
    /\ Lt(rawDetections[1].confidence, rawDetections[3].confidence)
    /\ rawDetections[1] = rawDetections[2]
    /\ Len(bubbles) = 2

\* C25: nms is idempotent: handed its own result with the same threshold,
\* it returns the same detections in the same order.
C25_NmsIdempotent ==
    (pc = "done" /\ previous.ran) => bubbles = previous.bubbles

\* the second call has returned, and the first call had suppressed a
\* detection and kept two
C25_Witness ==
    /\ pc = "done" /\ previous.ran
    /\ Len(previous.rawDetections) = 3
    /\ Len(previous.bubbles) = 2
    /\ Len(sorted) = 2
    /\ bubbles = previous.bubbles

C28_OneLoadOneSession ==
    /\ Cardinality({ l \in 1..Len(loads) : loads[l].downloaded }) <= 1
    /\ Cardinality({ l \in 1..Len(loads) : loads[l].creating }) <= 1
    /\ \A k \in 1..Len(calls) :
          calls[k].received # "pending" =>
              /\ calls[k].received = "session"
              /\ calls[k].value = session

\* a call started the load, another was handed its promise while the model
\* was downloading, a third was handed the session; all three continued
C28_Witness ==
    /\ Len(calls) >= 3
    /\ \E a, b, c \in 1..Len(calls) :
          /\ calls[a].handed.started
          /\ calls[b].handed.kind = "promise" /\ ~calls[b].handed.started
          /\ calls[c].handed.kind = "session"
          /\ \A k \in {a, b, c} : calls[k].received = "session"
    /\ loads[1].downloaded

\* C29: after a loadModel attempt has failed, every later loadModel call
\* rejects with the stored error and starts no download or session creation
\* until resetSessionError or clearModelCache runs; after resetSessionError
\* the next loadModel call starts a fresh load attempt.
C29_ErrorLatchedUntilReset ==
    \A k \in 1..Len(calls) :
        /\ calls[k].errorAtCall # null =>
              /\ calls[k].handed.kind = "error"
              /\ calls[k].handed.value = calls[k].errorAtCall
              /\ ~calls[k].handed.started
        /\ calls[k].retry => calls[k].handed.started

\* C30: after any sequence of detectBubblesInImage and clearDetectionCache
\* calls, for any image URLs and any interleaving, the detection cache
\* holds at most MAX_CACHE_SIZE entries; a result stored in a full cache
\* removes the entry inserted earliest, and a failed detection stores
\* nothing.
C30_CacheBounded ==
    /\ Len(detectionCache) <= MAX_CACHE_SIZE
    /\ \A r \in 1..Len(requests) :
          /\ (requests[r].pc = "returned" /\ requests[r].sizeBefore >= MAX_CACHE_SIZE) =>
                requests[r].removed = <<requests[r].oldest>>
          /\ requests[r].pc = "rejected" => ~requests[r].stored

====
